---- MODULE Spec2Model ----
(***************************************************************************)
(* Dating-bot backend (aiogram handlers over a Supabase record store).     *)
(* The record store's tables are sets of rows; every handler is one action *)
(* that takes the inbound event (sender, content) and the set F of steps   *)
(* whose store/transport call raises during this handling.                 *)
(***************************************************************************)
EXTENDS Integers, Sequences, FiniteSets, TLC

\* ------------------------------------------------------------------ bounds
NUsers == 3
MaxChats == 2
MaxMatches == 2
NCand == 2
\* handlers in flight at once, where handlers interleave
MaxTasks == 2

\* ------------------------------------------------------- program constants
StartChatLimit == 50
DeactivateLimit == 200
ActiveChatLimit == 100
\* the feed's lookback, in days
ViewWindowDays == 2
\* the clock's horizon: long enough for a view to leave the lookback window
MaxTime == ViewWindowDays + 1

VARIABLES
    users,      \* Users rows          [id, tg_id, is_blocked]
    profiles,   \* Profiles rows       [id, user_id, name, gender, age, city, photos, bio,
                \*                      is_active, boosted_until, created_at]
    viewed,     \* ViewedProfiles rows [user_id, profile_id, viewed_at]
    likes,      \* Likes rows          [id, from_user_id, to_user_id, message, video_url]
    matches,    \* Matches rows        [id, user1_id, user2_id, is_active]
    chats,      \* Chats rows          [id, match_id, is_active, updated_at]
    complaints, \* Complaints rows     [id, from_user_id, against_user_id, reason]
    prompts,    \* contact-exchange prompts delivered and still on screen [to, match_id, by]
    tasks,      \* handlers suspended in a send, when handlers interleave [id, op, from, pc, ...]
    fsm,        \* aiogram FSM storage: Telegram identity -> [state, data]
    now,        \* the clock, in days
    sent,       \* messages the last handled event sent: <<[to, text], ...>>
    ev,         \* the last handled event [op, from, ...]
    pre,        \* the tables as they were before the last handled event
    twin        \* the outcome of the last event, while it is replayed on other blocked flags

vars == <<users, profiles, viewed, likes, matches, chats, complaints, prompts, tasks, fsm, now, sent,
          ev, pre, twin>>

\* ------------------------------------------------------------- identities
UserIds == 1..NUsers
\* Telegram identity of the person owning Users row i; Tg(0) is the bot itself.
Tg(i) == 100 + i
BotTg == Tg(0)
\* a Telegram account that never talked to the bot (no Users row)
StrangerTg == Tg(-1)
Senders == {Tg(i) : i \in UserIds} \cup {StrangerTg}

MaxId(T) == IF T = {} THEN 0 ELSE CHOOSE n \in {r.id : r \in T} : \A r \in T : r.id <= n
\* bigserial primary key of the next inserted row
NextId(T) == MaxId(T) + 1

\* .limit(n) on a query without ORDER BY: any n of the rows
Limit(S, n) == IF Cardinality(S) <= n THEN {S} ELSE {T \in SUBSET S : Cardinality(T) = n}

Snapshot == [users |-> users, profiles |-> profiles, viewed |-> viewed, likes |-> likes,
             matches |-> matches, chats |-> chats, complaints |-> complaints, fsm |-> fsm,
             prompts |-> prompts]

\* --------------------------------------------------------- supabase_client
get_user_by_tg_id(tg_id) == {u \in users : u.tg_id = tg_id}

\* ------------------------------------------------------------ chat helpers
_other_user_id(match, my_user_id) ==
    IF match.user1_id = my_user_id THEN match.user2_id
    ELSE IF match.user2_id = my_user_id THEN match.user1_id
    ELSE 0

\* variant: the is_active filter is not applied
Mut_matches_in_any_state(user_id, active_only, limit) ==
    Limit({m \in matches : m.user1_id = user_id \/ m.user2_id = user_id}, limit)
_get_matches_for_user(user_id, active_only, limit) ==
    Limit({m \in matches : /\ (active_only => m.is_active)
                           /\ (m.user1_id = user_id \/ m.user2_id = user_id)}, limit)

\* variant: ended chats are returned too
Mut_ended_chats_count(match_ids) == {c \in chats : c.match_id \in match_ids}

_get_active_chats_for_matches(match_ids) ==
    {c \in chats : c.is_active /\ c.match_id \in match_ids}

\* variant: no match is ever seen to have an active chat
Mut_chat_never_seen(match_id) == FALSE
_has_active_chat_for_match(match_id) ==
    \E c \in chats : c.match_id = match_id /\ c.is_active

\* variant: a blocked user has no Telegram identity to send to
Mut_blocked_unreachable(users_id) ==
    {u.tg_id : u \in {x \in users : x.id = users_id /\ ~x.is_blocked}}
_tg_id(users_id) == {u.tg_id : u \in {x \in users : x.id = users_id}}

\* The (chat, match) pairs _get_active_chat_for_user may return: the active chat
\* with the latest updated_at among the user's active matches (ties: store order)
\* and the match it belongs to; the empty set stands for None.
_get_active_chat_for_user(user_id) ==
    UNION { LET cs == _get_active_chats_for_matches({m.id : m \in ms})
                latest == {x \in cs : \A y \in cs : y.updated_at <= x.updated_at}
            IN  {p \in latest \X ms : p[2].id = p[1].match_id}
          : ms \in _get_matches_for_user(user_id, TRUE, ActiveChatLimit) }

\* ----------------------------------------------------------------- faults
\* F.steps: the record-store and transport calls that raise while this event is
\* handled; F.down: the Telegram identities to which every send raises.
FaultSteps == {"deactivate", "create_chat", "end_chat", "block_user", "block_chat",
               "mark_viewed", "answer_photo", "like_upsert", "reciprocal", "get_match",
               "create_match", "resolve_tg", "my_profile", "download", "upload",
               "upsert_user", "get_profile", "profile_write", "report_insert"}
NoFaults == [steps |-> {}, down |-> {}]
AnyFaults == [steps : SUBSET FaultSteps, down : SUBSET Senders]

Msg(to, text) == [to |-> to, text |-> text]
\* The record of a handled event: the handler, the sender, and (for the feed and
\* like handlers) the like's target and payload, the profile shown, and the
\* Telegram identities that could not be reached while it was handled.
Ev(op, from) == [op |-> op, from |-> from, target |-> 0,
                 message |-> {}, video_url |-> {}, shown |-> {}, down |-> {},
                 steps |-> {}]
MinOf(S) == CHOOSE n \in S : \A k \in S : n <= k
\* Sends made one after another outside any try block: the first one that raises
\* ends the handler, so only the messages before it are delivered.
Unguarded(msgs, F) ==
    LET bad == {i \in 1..Len(msgs) : msgs[i].to \in F.down}
    IN  IF bad = {} THEN msgs ELSE SubSeq(msgs, 1, MinOf(bad) - 1)

\* variant: the first failing send ends the whole series
Mut_first_failure_ends_series(msgs, F) == Unguarded(msgs, F)

\* sends inside a try block: a failing one is logged and skipped
Guarded(msgs, F) == SelectSeq(msgs, LAMBDA x : x.to \notin F.down)

\* table(CHATS).update({"is_active": False}).in_("match_id", mids).eq("is_active", True)
DeactivateChatsOfMatches(mids) ==
    {IF c.match_id \in mids /\ c.is_active THEN [c EXCEPT !.is_active = FALSE] ELSE c : c \in chats}

\* Mutant: the cleanup before a new chat is skipped.
Mut_deactivate_nothing(user_id, F) == {chats}

\* The Chats table after _deactivate_all_user_chats(user_id), for each result the
\* unordered, limited match query may give.
_deactivate_all_user_chats(user_id, F) ==
    { IF ms = {} \/ "deactivate" \in F.steps THEN chats
      ELSE DeactivateChatsOfMatches({m.id : m \in ms})
    : ms \in _get_matches_for_user(user_id, TRUE, DeactivateLimit) }

\* The row _create_chat inserts into table T: is_active true, updated_at the store's
\* now() at insert, which grows with every insert (stood for by the row counter).
NewChat(T, match_id) ==
    [id |-> NextId(T), match_id |-> match_id, is_active |-> TRUE, updated_at |-> NextId(T)]

\* ------------------------------------------------------------ chat handlers
\* What cmd_start_chat may do to the Chats table, with the messages it then
\* sends one after another.
StartChatOutcomes(from, F) ==
    LET dbu == get_user_by_tg_id(from) IN
    IF dbu = {} THEN {[chats |-> chats, msgs |-> <<>>]}
    ELSE
    LET me == CHOOSE u \in dbu : TRUE IN
    UNION {
      IF ms = {} THEN {[chats |-> chats, msgs |-> <<Msg(from, "no_active_matches")>>]}
      ELSE
      LET free == {m \in ms : ~_has_active_chat_for_match(m.id)} IN
      IF free = {}
      THEN {[chats |-> chats, msgs |-> <<Msg(from, "all_matches_have_chats")>>]}
      ELSE
      \* "pick first without active chat": the rows come in store order
      UNION {
        { IF "create_chat" \in F.steps
          THEN [chats |-> cleaned, msgs |-> <<Msg(from, "create_failed")>>]
          ELSE LET other_tg == _tg_id(_other_user_id(candidate, me.id))
               IN  [chats |-> cleaned \cup {NewChat(cleaned, candidate.id)},
                    msgs |-> <<Msg(from, "chat_started")>>
                             \o [i \in 1..Cardinality(other_tg) |->
                                    Msg(CHOOSE t \in other_tg : TRUE, "chat_started_by_other")]]
        : cleaned \in _deactivate_all_user_chats(me.id, F) }
      : candidate \in free }
    : ms \in _get_matches_for_user(me.id, TRUE, StartChatLimit) }

cmd_start_chat(from, F) ==
    /\ ev' = [Ev("start_chat", from) EXCEPT !.down = F.down, !.steps = F.steps]
    /\ pre' = Snapshot
    /\ UNCHANGED <<users, matches, profiles, viewed, likes, complaints, prompts, tasks, twin, fsm, now>>
    /\ \E r \in StartChatOutcomes(from, F) :
         /\ Cardinality(r.chats) <= MaxChats
         /\ chats' = r.chats
         /\ sent' = Unguarded(r.msgs, F)

\* cmd_start_chat up to its first awaited send: the table writes are done and
\* the first message is on its way; the other messages are still to be sent
start_chat_begin(id, from) ==
    /\ ev' = Ev("start_chat", from)
    /\ pre' = Snapshot
    /\ UNCHANGED <<users, matches, profiles, viewed, likes, complaints, prompts, twin, fsm, now>>
    /\ \E r \in StartChatOutcomes(from, NoFaults) :
         /\ Cardinality(r.chats) <= MaxChats
         /\ chats' = r.chats
         /\ sent' = IF r.msgs = <<>> THEN <<>> ELSE <<Head(r.msgs)>>
         /\ tasks' = IF r.msgs = <<>> THEN tasks
                     ELSE tasks \cup {[id |-> id, op |-> "start_chat", from |-> from,
                                       rest |-> Tail(r.msgs)]}

\* the awaited send returns: the next message is sent, or the handler ends
start_chat_resume(k) ==
    /\ k \in tasks /\ k.op = "start_chat"
    /\ ev' = Ev("start_chat", k.from)
    /\ pre' = Snapshot
    /\ UNCHANGED <<users, matches, chats, profiles, viewed, likes, complaints, prompts, twin, fsm, now>>
    /\ IF k.rest = <<>>
       THEN sent' = <<>> /\ tasks' = tasks \ {k}
       ELSE /\ sent' = <<Head(k.rest)>>
            /\ tasks' = (tasks \ {k}) \cup {[k EXCEPT !.rest = Tail(k.rest)]}

cmd_end_chat(from, F) ==
    /\ ev' = [Ev("end_chat", from) EXCEPT !.down = F.down, !.steps = F.steps]
    /\ pre' = Snapshot
    /\ UNCHANGED <<users, matches, profiles, viewed, likes, complaints, prompts, tasks, twin, fsm, now>>
    /\ LET dbu == get_user_by_tg_id(from) IN
       IF dbu = {} THEN chats' = chats /\ sent' = <<>>
       ELSE
       LET me == CHOOSE u \in dbu : TRUE
           active == _get_active_chat_for_user(me.id)
       IN
       IF active = {}
       THEN chats' = chats /\ sent' = Unguarded(<<Msg(from, "no_active_chat")>>, F)
       ELSE
       \E p \in active :
         LET chat == p[1]
             match == p[2]
             other_tg == _tg_id(_other_user_id(match, me.id))
         IN
         /\ chats' = IF "end_chat" \in F.steps THEN chats
                     ELSE {IF c.id = chat.id THEN [c EXCEPT !.is_active = FALSE] ELSE c : c \in chats}
         /\ sent' = Unguarded(<<Msg(from, "chat_ended")>>
                         \o [i \in 1..Cardinality(other_tg) |->
                                Msg(CHOOSE t \in other_tg : TRUE, "other_ended_chat")], F)

cmd_block_user(from, F) ==
    /\ ev' = [Ev("block_user", from) EXCEPT !.down = F.down, !.steps = F.steps]
    /\ pre' = Snapshot
    /\ UNCHANGED <<matches, profiles, viewed, likes, complaints, prompts, tasks, twin, fsm, now>>
    /\ LET dbu == get_user_by_tg_id(from) IN
       IF dbu = {} THEN UNCHANGED <<chats, users>> /\ sent' = <<>>
       ELSE
       LET me == CHOOSE u \in dbu : TRUE
           active == _get_active_chat_for_user(me.id)
       IN
       IF active = {}
       THEN UNCHANGED <<chats, users>> /\ sent' = Unguarded(<<Msg(from, "no_active_chat_to_block")>>, F)
       ELSE
       \E p \in active :
         LET chat == p[1]
             match == p[2]
             other == _other_user_id(match, me.id)
             blocked == {IF u.id = other THEN [u EXCEPT !.is_blocked = TRUE] ELSE u : u \in users}
             ended == {IF c.id = chat.id THEN [c EXCEPT !.is_active = FALSE] ELSE c : c \in chats}
         IN
         \* one try block: users update, chats update, answer; any raise goes to
         \* the except branch, which answers with the error text
         IF "block_user" \in F.steps
         THEN UNCHANGED <<chats, users>> /\ sent' = Unguarded(<<Msg(from, "block_failed")>>, F)
         ELSE IF "block_chat" \in F.steps
         THEN users' = blocked /\ chats' = chats
              /\ sent' = Unguarded(<<Msg(from, "block_failed")>>, F)
         ELSE users' = blocked /\ chats' = ended
              /\ sent' = IF from \in F.down
                         THEN Unguarded(<<Msg(from, "block_failed")>>, F)
                         ELSE <<Msg(from, "user_blocked_chat_ended")>>

MaxOf(S) == CHOOSE n \in S : \A k \in S : k <= n

\* A message text is a sequence of pieces: words, and " " for each space.
\* str.partition(" ")[2]: what follows the first space, empty if there is none
AfterFirstSpace(text) ==
    LET sp == {i \in 1..Len(text) : text[i] = " "}
    IN  IF sp = {} THEN <<>> ELSE SubSeq(text, MinOf(sp) + 1, Len(text))

\* str.strip()
Strip(text) ==
    LET ns == {i \in 1..Len(text) : text[i] # " "}
    IN  IF ns = {} THEN <<>> ELSE SubSeq(text, MinOf(ns), MaxOf(ns))

\* variant: the complaint is always filed against nobody
Mut_report_without_target(user_id) == {{}}

\* against_user_id of a complaint by user_id: the counterpart of the active
\* chat, or None (the empty set)
ReportTarget(user_id) ==
    LET active == _get_active_chat_for_user(user_id)
    IN  IF active = {} THEN {{}} ELSE {{_other_user_id(p[2], user_id)} : p \in active}

cmd_report(from, text, F) ==
    /\ ev' = [Ev("report", from) EXCEPT !.message = {text}]
    /\ pre' = Snapshot
    /\ UNCHANGED <<users, matches, chats, profiles, viewed, likes, prompts, tasks, twin, fsm, now>>
    /\ LET dbu == get_user_by_tg_id(from) IN
       IF dbu = {} THEN complaints' = complaints /\ sent' = <<>>
       ELSE
       LET me == CHOOSE u \in dbu : TRUE
           reason == Strip(AfterFirstSpace(text))
       IN
       IF reason = <<>>
       THEN complaints' = complaints /\ sent' = Unguarded(<<Msg(from, "report_usage")>>, F)
       ELSE
       \E target_id \in ReportTarget(me.id) :
         IF "report_insert" \in F.steps
         THEN complaints' = complaints /\ sent' = Unguarded(<<Msg(from, "report_failed")>>, F)
         ELSE /\ complaints' = complaints \cup
                    {[id |-> Cardinality(complaints) + 1, from_user_id |-> me.id,
                      against_user_id |-> target_id, reason |-> reason]}
              /\ sent' = Unguarded(<<Msg(from, "report_sent")>>, F)

CB_PREFIX == "chat"
_cb(action, match_id) == <<CB_PREFIX, action, match_id>>
\* the (action, match id) of a callback payload, or nothing when it is malformed
_parse_cb(data) ==
    IF Len(data) = 3 /\ data[1] = CB_PREFIX THEN {<<data[2], data[3]>>} ELSE {}

\* variant: the prompt goes to the requester as well
Mut_prompt_to_both(from, other_tg) == {from, other_tg}

\* who is sent the approve/reject prompt
PromptRecipients(from, other_tg) == {other_tg}

cmd_share_contact(from, F) ==
    /\ ev' = Ev("share_contact", from)
    /\ pre' = Snapshot
    /\ UNCHANGED <<users, matches, chats, profiles, viewed, likes, complaints, tasks, twin, fsm, now>>
    /\ LET dbu == get_user_by_tg_id(from) IN
       IF dbu = {} THEN prompts' = prompts /\ sent' = <<>>
       ELSE
       LET me == CHOOSE u \in dbu : TRUE
           active == _get_active_chat_for_user(me.id)
       IN
       IF active = {}
       THEN /\ prompts' = prompts
            /\ sent' = Unguarded(<<Msg(from, "no_active_chat_for_contacts")>>, F)
       ELSE
       \E p \in active :
         LET match == p[2]
             other_tg == _tg_id(_other_user_id(match, me.id))
         IN
         IF other_tg = {}
         THEN /\ prompts' = prompts
              /\ sent' = Unguarded(<<Msg(from, "cannot_reach_counterpart")>>, F)
         ELSE IF from \in F.down THEN prompts' = prompts /\ sent' = <<>>
         ELSE
         LET to == PromptRecipients(from, CHOOSE t \in other_tg : TRUE) \ F.down
             ask == [t \in to |-> [to |-> t, text |-> "contact_prompt",
                                   buttons |-> {_cb("approve", match.id), _cb("reject", match.id)}]]
         IN
         /\ \E order \in {q \in [1..Cardinality(to) -> to] : \A t \in to : \E i \in DOMAIN q : q[i] = t} :
              sent' = <<Msg(from, "contact_request_sent")>> \o [i \in DOMAIN order |-> ask[order[i]]]
         /\ prompts' = prompts \cup {[to |-> t, match_id |-> match.id, by |-> from] : t \in to}

\* sends and the closing answer of one try block; a raise skips the rest and the
\* except branch answers with the error text
TryThen(msgs, F, fail_msg) ==
    IF Unguarded(msgs, F) = msgs THEN msgs
    ELSE Unguarded(msgs, F) \o Unguarded(<<fail_msg>>, F)

_get_match_by_id(mid) == {m \in matches : m.id = mid}

\* _mention(tg): the link to a Telegram account
_mention(tg) == [link |-> "tg://user?id=", id |-> tg]

\* the reject branch: user1 of the match is told the counterpart declined, user2
\* is told "you declined"
RejectNotices(tg_a, tg_b) ==
    [i \in 1..Cardinality(tg_a) |-> Msg(CHOOSE t \in tg_a : TRUE, "counterpart_declined_contacts")]
    \o [i \in 1..Cardinality(tg_b) |-> Msg(CHOOSE t \in tg_b : TRUE, "you_declined_contacts")]

\* variant: each member is sent the link to its own account
Mut_own_contact(tg_a, tg_b) ==
    <<[to |-> tg_a, text |-> "contacts_allowed", contact |-> _mention(tg_a)],
      [to |-> tg_b, text |-> "contacts_allowed", contact |-> _mention(tg_b)]>>

\* the approve branch: each member is sent the link to the other's account
ApproveNotices(tg_a, tg_b) ==
    <<[to |-> tg_a, text |-> "contacts_allowed", contact |-> _mention(tg_b)],
      [to |-> tg_b, text |-> "contacts_allowed", contact |-> _mention(tg_a)]>>

\* a press of a button of a delivered prompt; call.answer(...) shows its text to
\* the presser
cb_share_contact(from, data, F) ==
    /\ ev' = [Ev("cb_share_contact", from) EXCEPT !.message = {data}]
    /\ pre' = Snapshot
    /\ UNCHANGED <<users, matches, chats, profiles, viewed, likes, complaints, prompts, tasks, twin, fsm, now>>
    /\ IF _parse_cb(data) = {}
       THEN sent' = Unguarded(<<Msg(from, "answer:bad_data")>>, F)
       ELSE
       LET parsed == CHOOSE x \in _parse_cb(data) : TRUE
           action == parsed[1]
           match == _get_match_by_id(parsed[2])
       IN
       IF match = {} THEN sent' = Unguarded(<<Msg(from, "answer:match_not_found")>>, F)
       ELSE
       LET m == CHOOSE x \in match : TRUE
           tg_a == _tg_id(m.user1_id)
           tg_b == _tg_id(m.user2_id)
       IN
       IF action = "approve"
       THEN sent' = TryThen((IF tg_a # {} /\ tg_b # {}
                             THEN ApproveNotices(CHOOSE t \in tg_a : TRUE, CHOOSE t \in tg_b : TRUE)
                             ELSE <<>>) \o <<Msg(from, "answer:contacts_exchanged")>>,
                            F, Msg(from, "answer:exchange_failed"))
       ELSE IF action = "reject"
       THEN sent' = TryThen(RejectNotices(tg_a, tg_b) \o <<Msg(from, "answer:declined")>>,
                            F, Msg(from, "answer:error"))
       ELSE sent' = <<>>

\* variant: the relay ignores the dialogue state of the sender
Mut_relay_in_any_state(from) == TRUE

\* StateFilter(None): the sender is in no dialogue state
StateFilterNone(from) == fsm[from].state = "none"

\* any text, photo or video that no handler registered earlier has taken
proxy_messages(from, F) ==
    /\ StateFilterNone(from)
    /\ ev' = Ev("proxy_messages", from)
    /\ pre' = Snapshot
    /\ UNCHANGED <<users, matches, chats, profiles, viewed, likes, complaints, prompts, tasks, twin, fsm, now>>
    /\ LET dbu == get_user_by_tg_id(from) IN
       IF dbu = {} THEN sent' = <<>>
       ELSE
       LET me == CHOOSE u \in dbu : TRUE
           active == _get_active_chat_for_user(me.id)
       IN
       IF active = {} THEN sent' = <<>>
       ELSE
       \E p \in active :
         LET other_tg == _tg_id(_other_user_id(p[2], me.id))
         IN  sent' = Guarded([i \in 1..Cardinality(other_tg) |->
                                 Msg(CHOOSE t \in other_tg : TRUE, "copy_of_message")], F)

\* ---------------------------------------------------------- feed selector
\* Handlers that read the clock take its reading t as an input: the time the
\* event is handled, never earlier than the previous reading (now).
ClockReadings == now..MaxTime

\* variant: a view exactly `days` old is already outside the window
Mut_viewed_strict_window(user_id, days, t) ==
    {r.profile_id : r \in {x \in viewed : x.user_id = user_id /\ x.viewed_at > t - days}}

\* .gte("viewed_at", t - days): the profiles this user was shown in the window
_get_recently_viewed_ids(user_id, days, t) ==
    {r.profile_id : r \in {x \in viewed : x.user_id = user_id /\ x.viewed_at >= t - days}}

\* variant: the filter keeps the viewer's own gender
Mut_same_gender(g) ==
    IF g = "male" THEN {"male"} ELSE IF g = "female" THEN {"female"} ELSE {}

\* the gender filter, as a set: empty for 'other' or unknown (no filter)
_opposite_gender(g) ==
    IF g = "male" THEN {"female"} ELSE IF g = "female" THEN {"male"} ELSE {}

BoostOf(p) == CHOOSE b \in p.boosted_until : TRUE
\* ORDER BY ... DESC, first row: any row with the greatest key
TopByBoost(S) == {p \in S : \A q \in S : BoostOf(q) <= BoostOf(p)}
TopByCreated(S) == {p \in S : \A q \in S : q.created_at <= p.created_at}

_apply_common_filters(p, user_id, gender_filter, city_filter, viewed_ids) ==
    /\ p.is_active
    /\ p.user_id # user_id
    /\ (gender_filter # {} => p.gender \in gender_filter)
    /\ (city_filter # "" => p.city = city_filter)
    /\ (viewed_ids # {} => p.id \notin viewed_ids)

\* variant: an expired boost still counts
Mut_boost_never_expires(common, t) == {p \in common : p.boosted_until # {}}

\* .gte("boosted_until", now_iso): a NULL boosted_until never passes
BoostedPool(common, t) == {p \in common : p.boosted_until # {} /\ BoostOf(p) >= t}

\* What _fetch_next_profile may return with `mine` the caller's own profile row
\* as fetched (a set: empty when there is none); the empty set stands for None.
FetchWith(user_id, mine, t) ==
    LET gender_filter == UNION {_opposite_gender(q.gender) : q \in mine}
        city_filter == IF mine = {} THEN "" ELSE (CHOOSE q \in mine : TRUE).city
        viewed_ids == _get_recently_viewed_ids(user_id, ViewWindowDays, t)
        common == {p \in profiles :
                     _apply_common_filters(p, user_id, gender_filter, city_filter, viewed_ids)}
        boosted == BoostedPool(common, t)
    IN  IF boosted # {} THEN TopByBoost(boosted) ELSE TopByCreated(common)

_fetch_next_profile(user_id, t) ==
    LET own == {p \in profiles : p.user_id = user_id}
    IN  IF own = {} THEN FetchWith(user_id, {}, t)
        ELSE UNION {FetchWith(user_id, {q}, t) : q \in own}

\* variant: the showing is never recorded
Mut_view_not_recorded(user_id, profile_id, t, F) == viewed

\* mark_profile_viewed: the insert, with viewed_at the store's now(); a raise is
\* logged and swallowed
mark_profile_viewed(user_id, profile_id, t, F) ==
    IF "mark_viewed" \in F.steps THEN viewed
    ELSE viewed \cup {[user_id |-> user_id, profile_id |-> profile_id, viewed_at |-> t]}

\* the messages _show_profile sends: the photo card, or the text card when there
\* is no photo or sending the photo raises
ShowCard(to, profile, F) ==
    IF profile.photos # <<>> /\ "answer_photo" \notin F.steps
    THEN <<Msg(to, "profile_photo_card")>>
    ELSE <<Msg(to, "profile_text_card")>>

cmd_feed(from, t, F) ==
    /\ pre' = Snapshot
    /\ now' = t
    /\ UNCHANGED <<users, profiles, likes, matches, chats, complaints, prompts, tasks, twin, fsm>>
    /\ LET db_user == get_user_by_tg_id(from) IN
       IF db_user = {}
       THEN /\ viewed' = viewed
            /\ ev' = [Ev("feed", from) EXCEPT !.down = F.down, !.steps = F.steps]
            /\ sent' = Unguarded(<<Msg(from, "user_error")>>, F)
       ELSE
       LET me == CHOOSE u \in db_user : TRUE
           found == _fetch_next_profile(me.id, t)
       IN
       IF found = {}
       THEN /\ viewed' = viewed
            /\ ev' = [Ev("feed", from) EXCEPT !.down = F.down, !.steps = F.steps]
            /\ sent' = Unguarded(<<Msg(from, "no_profiles")>>, F)
       ELSE
       \E profile \in found :
         /\ ev' = [Ev("feed", from) EXCEPT !.shown = {profile.id}, !.down = F.down,
                                           !.steps = F.steps]
         /\ sent' = Unguarded(ShowCard(from, profile, F), F)
         \* the text card is sent outside the try block: if it raises, the
         \* handler ends before the view is recorded
         /\ viewed' = IF from \in F.down THEN viewed
                      ELSE mark_profile_viewed(me.id, profile.id, t, F)

\* ------------------------------------------------- interest & match engine
\* upsert(payload, on_conflict="from_user_id,to_user_id"): the payload carries
\* message and video_url always (None included), so both are overwritten
UpsertLike(L, from_user_id, to_user_id, message_text, video_url) ==
    IF \E l \in L : l.from_user_id = from_user_id /\ l.to_user_id = to_user_id
    THEN {IF l.from_user_id = from_user_id /\ l.to_user_id = to_user_id
          THEN [l EXCEPT !.message = message_text, !.video_url = video_url]
          ELSE l : l \in L}
    ELSE L \cup {[id |-> NextId(L), from_user_id |-> from_user_id, to_user_id |-> to_user_id,
                  message |-> message_text, video_url |-> video_url]}

\* variant: a plain insert, every like adds a row
Mut_insert_like_appends(from_user_id, to_user_id, message_text, video_url, F) ==
    likes \cup {[id |-> NextId(likes), from_user_id |-> from_user_id, to_user_id |-> to_user_id,
                 message |-> message_text, video_url |-> video_url]}

\* The Likes table after _insert_like; a raise (the store is down, or a user id
\* breaks the foreign key to Users) is logged and swallowed.
_insert_like(from_user_id, to_user_id, message_text, video_url, F) ==
    IF "like_upsert" \in F.steps \/ ~({from_user_id, to_user_id} \subseteq {u.id : u \in users})
    THEN likes
    ELSE UpsertLike(likes, from_user_id, to_user_id, message_text, video_url)

\* variant: the query never finds the like
Mut_reciprocal_missed(L, a_user_id, b_user_id, F) == FALSE

\* is there a like b -> a in table L (False when the query raises)
_check_reciprocal_like(L, a_user_id, b_user_id, F) ==
    /\ "reciprocal" \notin F.steps
    /\ \E l \in L : l.from_user_id = b_user_id /\ l.to_user_id = a_user_id

\* variant: the lookup never finds the match
Mut_match_never_found(M, a_user_id, b_user_id, F) == {}

\* the rows the .limit(1) lookup may return; the empty set stands for None
_get_match_between(M, a_user_id, b_user_id, F) ==
    IF "get_match" \in F.steps THEN {}
    ELSE {m \in M : \/ (m.user1_id = a_user_id /\ m.user2_id = b_user_id)
                    \/ (m.user1_id = b_user_id /\ m.user2_id = a_user_id)}

NewMatch(M, user1, user2) ==
    [id |-> NextId(M), user1_id |-> user1, user2_id |-> user2, is_active |-> TRUE]

\* variant: the insert is not preceded by the lookup
Mut_create_match_without_lookup(M, a_user_id, b_user_id, F) ==
    [table |-> M \cup {NewMatch(M, a_user_id, b_user_id)}, m |-> TRUE]

\* _create_match on Matches table M: the table afterwards and whether a row was
\* returned
_create_match(M, a_user_id, b_user_id, F) ==
    LET user1 == IF a_user_id <= b_user_id THEN a_user_id ELSE b_user_id
        user2 == IF a_user_id <= b_user_id THEN b_user_id ELSE a_user_id
        found == _get_match_between(M, user1, user2, F)
    IN  IF a_user_id = b_user_id THEN [table |-> M, m |-> FALSE]
        ELSE IF found # {} THEN [table |-> M, m |-> TRUE]
        ELSE IF "create_match" \in F.steps THEN [table |-> M, m |-> found # {}]
        ELSE [table |-> M \cup {NewMatch(M, user1, user2)}, m |-> TRUE]

_resolve_tg_id(users_id, F) ==
    IF "resolve_tg" \in F.steps THEN {} ELSE {u.tg_id : u \in {x \in users : x.id = users_id}}

\* What the three like handlers do once the acting Users row `me` is resolved:
\* upsert, notify the target, detect reciprocity, create the match, notify both.
\* done = FALSE: the unguarded read of the actor's profile raised after the upsert.
LikeSteps(me, my_tg, to_user_id, message_text, video_url, F) ==
    LET L == _insert_like(me.id, to_user_id, message_text, video_url, F)
        target_tg == _resolve_tg_id(to_user_id, F)
        my_profile == {p \in profiles : p.user_id = me.id}
        notify == IF target_tg # {} /\ my_profile # {}
                  THEN Guarded(<<Msg(CHOOSE g \in target_tg : TRUE, "new_like")>>, F)
                  ELSE <<>>
        cm == IF _check_reciprocal_like(L, me.id, to_user_id, F)
              THEN _create_match(matches, me.id, to_user_id, F)
              ELSE [table |-> matches, m |-> FALSE]
        both == IF cm.m /\ target_tg # {}
                THEN Guarded(<<Msg(my_tg, "match"), Msg(CHOOSE g \in target_tg : TRUE, "match")>>, F)
                ELSE <<>>
    IN  IF "my_profile" \in F.steps
        THEN [likes |-> L, matches |-> matches, msgs |-> <<>>, done |-> FALSE]
        ELSE [likes |-> L, matches |-> cm.table, msgs |-> notify \o both, done |-> TRUE]

NoData == [entry |-> {}, name |-> {}, gender |-> {}, age |-> {}, city |-> {}, photos |-> {},
           target_user_id |-> {}]
Idle == [state |-> "none", data |-> NoData]

\* "show next" at the end of the skip and like branches: the messages sent to
\* the chat and the ViewedProfiles table afterwards, for the profile chosen
ShowNext(me, from, first, next, t, F) ==
    LET msgs == IF next = {} THEN <<Msg(from, first), Msg(from, "no_more_profiles")>>
                ELSE <<Msg(from, first)>> \o ShowCard(from, CHOOSE p \in next : TRUE, F)
    IN  [msgs |-> Unguarded(msgs, F),
         viewed |-> IF next = {} \/ from \in F.down THEN viewed
                    ELSE mark_profile_viewed(me.id, (CHOOSE p \in next : TRUE).id, t, F)]

\* A press of a button under a shown card by Telegram user `from`; the button
\* carries the action and the Users id of the card's owner.  The acting user is
\* looked up from call.message, the message carrying the button, whose author
\* is the bot.
feed_actions(from, action, to_user_id, t, F) ==
    /\ pre' = Snapshot
    /\ now' = t
    /\ UNCHANGED <<users, profiles, chats, complaints, prompts, tasks, twin>>
    /\ LET db_user == get_user_by_tg_id(BotTg)
           E == [Ev(action, from) EXCEPT !.target = to_user_id, !.down = F.down,
                                         !.steps = F.steps]
       IN
       IF db_user = {}
       THEN /\ UNCHANGED <<likes, matches, viewed, fsm>>
            /\ ev' = E
            /\ sent' = Unguarded(<<Msg(from, "user_error")>>, F)
       ELSE
       LET me == CHOOSE u \in db_user : TRUE
           found == _fetch_next_profile(me.id, t)
       IN
       CASE action = "skip" ->
              /\ UNCHANGED <<likes, matches, fsm>>
              /\ \E next \in (IF found = {} THEN {{}} ELSE {{p} : p \in found}) :
                   LET r == ShowNext(me, from, "skipped", next, t, F)
                   IN  /\ sent' = r.msgs /\ viewed' = r.viewed
                       /\ ev' = [E EXCEPT !.shown = {p.id : p \in next}]
         [] action = "like" ->
              LET k == LikeSteps(me, from, to_user_id, {}, {}, F) IN
              /\ likes' = k.likes /\ matches' = k.matches /\ fsm' = fsm
              /\ IF ~k.done THEN sent' = k.msgs /\ viewed' = viewed /\ ev' = E
                 ELSE \E next \in (IF found = {} THEN {{}} ELSE {{p} : p \in found}) :
                        LET r == ShowNext(me, from, "like_sent", next, t, F)
                        IN  /\ sent' = k.msgs \o r.msgs /\ viewed' = r.viewed
                            /\ ev' = [E EXCEPT !.shown = {p.id : p \in next}]
         [] action = "like_msg" ->
              /\ UNCHANGED <<likes, matches, viewed>>
              /\ ev' = E
              /\ fsm' = [fsm EXCEPT ![from] =
                           [state |-> "LikeWithMessage:waiting_text",
                            data |-> [@.data EXCEPT !.target_user_id = {to_user_id}]]]
              /\ sent' = Unguarded(<<Msg(from, "write_message")>>, F)
         [] action = "like_vid" ->
              /\ UNCHANGED <<likes, matches, viewed>>
              /\ ev' = E
              /\ fsm' = [fsm EXCEPT ![from] =
                           [state |-> "LikeWithVideo:waiting_video",
                            data |-> [@.data EXCEPT !.target_user_id = {to_user_id}]]]
              /\ sent' = Unguarded(<<Msg(from, "send_video")>>, F)

\* variant: the like with a message opens a chat on a match of the pair
Mut_like_opens_chat(from, text, F) ==
    /\ fsm[from].state = "LikeWithMessage:waiting_text"
    /\ pre' = Snapshot
    /\ ev' = Ev("like_with_message", from)
    /\ chats' = chats \cup {NewChat(chats, 1)}
    /\ fsm' = [fsm EXCEPT ![from] = Idle]
    /\ sent' = <<>>
    /\ UNCHANGED <<users, profiles, viewed, likes, matches, complaints, prompts, tasks, twin, now>>

\* A message of `from` while in LikeWithMessage.waiting_text; text = "" stands
\* for a message without text or with blank text.
like_with_message(from, text, F) ==
    /\ fsm[from].state = "LikeWithMessage:waiting_text"
    /\ pre' = Snapshot
    /\ UNCHANGED <<users, profiles, viewed, chats, complaints, prompts, tasks, twin, now>>
    /\ LET db_user == get_user_by_tg_id(from)
           to_user_id == fsm[from].data.target_user_id
       IN
       IF db_user = {}
       THEN /\ UNCHANGED <<likes, matches, fsm>> /\ ev' = Ev("like_with_message", from)
            /\ sent' = Unguarded(<<Msg(from, "user_error")>>, F)
       ELSE IF to_user_id = {} \/ text = ""
       THEN /\ UNCHANGED <<likes, matches, fsm>> /\ ev' = Ev("like_with_message", from)
            /\ sent' = Unguarded(<<Msg(from, "message_empty")>>, F)
       ELSE
       LET me == CHOOSE u \in db_user : TRUE
           to == CHOOSE x \in to_user_id : TRUE
           k == LikeSteps(me, from, to, {text}, {}, F)
       IN  /\ ev' = [Ev("like_with_message", from) EXCEPT !.target = to, !.message = {text}, !.down = F.down]
           /\ likes' = k.likes /\ matches' = k.matches
           /\ fsm' = IF k.done THEN [fsm EXCEPT ![from] = Idle] ELSE fsm
           /\ sent' = IF k.done THEN k.msgs \o Unguarded(<<Msg(from, "like_with_message_sent")>>, F)
                      ELSE k.msgs

\* A video message of `from` while in LikeWithVideo.waiting_video; url is what
\* the upload returns.
like_with_video(from, url, F) ==
    /\ fsm[from].state = "LikeWithVideo:waiting_video"
    /\ pre' = Snapshot
    /\ UNCHANGED <<users, profiles, viewed, chats, complaints, prompts, tasks, twin, now>>
    /\ LET db_user == get_user_by_tg_id(from)
           to_user_id == fsm[from].data.target_user_id
       IN
       IF db_user = {}
       THEN /\ UNCHANGED <<likes, matches, fsm>> /\ ev' = Ev("like_with_video", from)
            /\ sent' = Unguarded(<<Msg(from, "user_error")>>, F)
       ELSE IF to_user_id = {}
       THEN /\ UNCHANGED <<likes, matches, fsm>> /\ ev' = Ev("like_with_video", from)
            /\ sent' = Unguarded(<<Msg(from, "like_target_error")>>, F)
       ELSE IF "download" \in F.steps
       THEN /\ UNCHANGED <<likes, matches, fsm>> /\ ev' = Ev("like_with_video", from)
            /\ sent' = Unguarded(<<Msg(from, "video_not_received")>>, F)
       ELSE IF "upload" \in F.steps
       THEN /\ UNCHANGED <<likes, matches, fsm>> /\ ev' = Ev("like_with_video", from)
            /\ sent' = Unguarded(<<Msg(from, "video_upload_error")>>, F)
       ELSE
       LET me == CHOOSE u \in db_user : TRUE
           to == CHOOSE x \in to_user_id : TRUE
           k == LikeSteps(me, from, to, {}, {url}, F)
       IN  /\ ev' = [Ev("like_with_video", from) EXCEPT !.target = to, !.video_url = {url}, !.down = F.down]
           /\ likes' = k.likes /\ matches' = k.matches
           /\ fsm' = IF k.done THEN [fsm EXCEPT ![from] = Idle] ELSE fsm
           /\ sent' = IF k.done THEN k.msgs \o Unguarded(<<Msg(from, "like_with_video_sent")>>, F)
                      ELSE k.msgs

\* ------------------------------------------------------ profile dialogue
BACK_BTN == "back_btn"
CREATE_BTN == "create_btn"
\* variant: a word the map does not know counts as 'other'
Mut_gender_defaults_to_other(text) ==
    IF text \in {"muzhskoy", "Muzhskoy", "male", "Male"} THEN {"male"}
    ELSE IF text \in {"zhenskiy", "Zhenskiy", "female", "Female"} THEN {"female"}
    ELSE {"other"}

\* GENDER_MAP.get(text.lower()): the words the map knows (the Russian ones
\* transliterated), with and without a capital
GENDER_MAP(text) ==
    IF text \in {"muzhskoy", "Muzhskoy", "male", "Male"} THEN {"male"}
    ELSE IF text \in {"zhenskiy", "Zhenskiy", "female", "Female"} THEN {"female"}
    ELSE IF text \in {"drugoe", "Drugoe", "other", "Other"} THEN {"other"}
    ELSE {}
\* int(text): the decimal numerals among the texts used
ParseInt(text) ==
    IF text = "17" THEN {17} ELSE IF text = "18" THEN {18} ELSE IF text = "25" THEN {25}
    ELSE IF text = "100" THEN {100} ELSE IF text = "101" THEN {101} ELSE {}
\* is_choice(n, label): the digit or the button's label
MenuLabel(n) ==
    IF n = "1" THEN "1. feed" ELSE IF n = "2" THEN "2. register again"
    ELSE IF n = "3" THEN "3. change media" ELSE "4. change bio"
is_choice(choice, n) == choice = n \/ choice = MenuLabel(n)

\* The Users table after upsert(payload, on_conflict="tg_id")
upsert_user_basic(tg_id) ==
    IF \E u \in users : u.tg_id = tg_id THEN users
    ELSE users \cup {[id |-> NextId(users), tg_id |-> tg_id, is_blocked |-> FALSE]}

\* the rows _get_profile_for_user may return (first row of the user's
\* profiles); empty for None, also when the lookup raises inside
_get_profile_for_user(tg_id, F) ==
    IF "get_profile" \in F.steps THEN {}
    ELSE {p \in profiles : \E u \in get_user_by_tg_id(tg_id) : p.user_id = u.id}

Got(s, none) == IF s = {} THEN none ELSE CHOOSE x \in s : TRUE

\* variant: the existing row is not looked up, every completion inserts
Mut_always_insert(from, data, bio, t, F) ==
    LET U == upsert_user_basic(from)
        uid == (CHOOSE u \in U : u.tg_id = from).id
    IN  {[users |-> U, failed |-> FALSE,
          profiles |-> profiles \cup
             {[id |-> NextId(profiles), user_id |-> uid, name |-> Got(data.name, ""),
               gender |-> Got(data.gender, ""), age |-> Got(data.age, 0),
               city |-> Got(data.city, ""), photos |-> Got(data.photos, <<>>), bio |-> bio,
               is_active |-> TRUE, boosted_until |-> {t + 1}, created_at |-> t]}]}

\* The row the insert branch writes: the payload with boosted_until 24 hours
\* (one day) after the clock reading; id and created_at are the store's defaults.
InsertedProfile(uid, data, bio, t) ==
    [id |-> NextId(profiles), user_id |-> uid, name |-> Got(data.name, ""),
     gender |-> Got(data.gender, ""), age |-> Got(data.age, 0),
     city |-> Got(data.city, ""), photos |-> Got(data.photos, <<>>),
     bio |-> bio, is_active |-> TRUE,
     boosted_until |-> {t + 1}, created_at |-> t]

\* variant: the update of an existing profile renews the boost as well
Mut_update_renews_boost(from, data, bio, t, F) ==
    LET U == upsert_user_basic(from)
        uid == (CHOOSE u \in U : u.tg_id = from).id
        rows == {p \in profiles : p.user_id = uid}
        name == Got(data.name, "")
        raise == "profile_write" \in F.steps \/ name = ""
    IN  IF raise THEN {[users |-> U, profiles |-> profiles, failed |-> TRUE]}
        ELSE IF rows # {}
        THEN {[users |-> U, failed |-> FALSE,
               profiles |-> {IF p.id = existing.id
                             THEN [InsertedProfile(uid, data, bio, t) EXCEPT
                                      !.id = p.id, !.created_at = p.created_at]
                             ELSE p : p \in profiles}] : existing \in rows}
        ELSE {[users |-> U, failed |-> FALSE,
               profiles |-> profiles \cup {InsertedProfile(uid, data, bio, t)}]}

\* _create_or_update_profile with the staged data and the bio: the possible
\* Users and Profiles tables afterwards, and whether the write raised (the
\* error text is then sent).  None is "" (0 for the age); name is NOT NULL.
_create_or_update_profile(from, data, bio, t, F) ==
    LET U == upsert_user_basic(from)
        uid == (CHOOSE u \in U : u.tg_id = from).id
        rows == {p \in profiles : p.user_id = uid}
        name == Got(data.name, "")
        raise == "profile_write" \in F.steps \/ name = ""
    IN  IF raise THEN {[users |-> U, profiles |-> profiles, failed |-> TRUE]}
        ELSE IF rows # {}
        THEN {[users |-> U, failed |-> FALSE,
               profiles |-> {IF p.id = existing.id
                             THEN [p EXCEPT !.user_id = uid, !.name = name,
                                            !.gender = Got(data.gender, ""),
                                            !.age = Got(data.age, 0),
                                            !.city = Got(data.city, ""),
                                            !.photos = Got(data.photos, <<>>),
                                            !.bio = bio, !.is_active = TRUE]
                             ELSE p : p \in profiles}] : existing \in rows}
        ELSE {[users |-> U, failed |-> FALSE,
               profiles |-> profiles \cup {InsertedProfile(uid, data, bio, t)}]}

\* cmd_register on FSM storage f (as its caller left it): the Users table, the
\* storage and the messages afterwards.  The prompt is sent before the state is
\* set, so a failed send leaves the state as it was.
cmd_register(from, f, F) ==
    LET U == upsert_user_basic(from)
        existing == {p \in profiles : \E u \in U : u.tg_id = from /\ p.user_id = u.id}
        d == f[from].data
        staged == IF d.entry = {} THEN [d EXCEPT !.entry = {"start"}] ELSE d
    IN  IF "upsert_user" \in F.steps THEN [users |-> users, fsm |-> f, msgs |-> <<>>]
        ELSE IF from \in F.down THEN [users |-> U, fsm |-> f, msgs |-> <<>>]
        ELSE [users |-> U,
              fsm |-> [f EXCEPT ![from] = [state |-> "Registration:name", data |-> staged]],
              msgs |-> <<Msg(from, IF existing # {} THEN "update_profile_send_name"
                                   ELSE "create_profile_send_name")>>]

\* variant: setting the state drops the staged data
Mut_set_state_drops_data(f, from, state) == [f EXCEPT ![from] = [state |-> state, data |-> NoData]]

\* state.set_state(...): the staged data stay
set_state(f, from, state) == [f EXCEPT ![from].state = state]

\* what every dialogue handler leaves alone
RegFrame(op, from, text) ==
    /\ pre' = Snapshot
    /\ ev' = [Ev(op, from) EXCEPT !.message = {text}]
    /\ UNCHANGED <<viewed, likes, matches, chats, complaints, prompts, tasks, twin, now>>

\* after a send outside any try block: the state change that follows the send
\* happens only when the send went through
After(from, F, f) == IF from \in F.down THEN fsm ELSE f

\* the menu or the create prompt, shown after leaving a flow
\* variant: the entry point is forgotten and the flow always ends idle
Mut_back_always_idle(from, entry_is_menu, F) ==
    /\ sent' = Unguarded(<<Msg(from, "press_create")>>, F)
    /\ fsm' = [fsm EXCEPT ![from] = Idle]

BackToMenu(from, entry_is_menu, F) ==
    LET p == _get_profile_for_user(from, F)
        cleared == [fsm EXCEPT ![from] = Idle]
    IN  IF entry_is_menu /\ p # {}
        THEN /\ sent' = Unguarded(<<Msg(from, "profile_menu")>>, F)
             /\ fsm' = IF from \in F.down THEN cleared
                       ELSE [cleared EXCEPT ![from].state = "MyProfileMenu:waiting_choice"]
        ELSE /\ sent' = Unguarded(<<Msg(from, "press_create")>>, F)
             /\ fsm' = cleared

\* /start
start_handler(from, F) ==
    /\ RegFrame("start_handler", from, "/start")
    /\ UNCHANGED profiles
    /\ IF "upsert_user" \in F.steps THEN UNCHANGED <<users, fsm>> /\ sent' = <<>>
       ELSE /\ users' = upsert_user_basic(from)
            /\ IF _get_profile_for_user(from, F) = {}
               THEN fsm' = fsm /\ sent' = Unguarded(<<Msg(from, "welcome_press_create")>>, F)
               ELSE /\ sent' = Unguarded(<<Msg(from, "profile_menu")>>, F)
                    /\ fsm' = After(from, F, set_state(fsm, from, "MyProfileMenu:waiting_choice"))

\* the "create profile" button, in any dialogue state
create_profile_button(from, F) ==
    /\ RegFrame("create_profile_button", from, CREATE_BTN)
    /\ UNCHANGED profiles
    /\ LET r == cmd_register(from, [fsm EXCEPT ![from].data.entry = {"start"}], F)
       IN  users' = r.users /\ fsm' = r.fsm /\ sent' = r.msgs

myprofile_choice(from, choice, t, F) ==
    /\ fsm[from].state = "MyProfileMenu:waiting_choice"
    /\ IF is_choice(choice, "1") THEN cmd_feed(from, t, F)
       ELSE
       /\ RegFrame("myprofile_choice", from, choice)
       /\ UNCHANGED profiles
       /\ IF is_choice(choice, "2")
          THEN LET r == cmd_register(from, [fsm EXCEPT ![from].data.entry = {"menu"}], F)
               IN  users' = r.users /\ fsm' = r.fsm /\ sent' = r.msgs
          ELSE IF is_choice(choice, "3")
          THEN /\ users' = users
               /\ fsm' = set_state(fsm, from, "ChangePhoto:waiting_photo")
               /\ sent' = Unguarded(<<Msg(from, "send_new_media")>>, F)
          ELSE IF is_choice(choice, "4")
          THEN /\ users' = users
               /\ fsm' = set_state(fsm, from, "ChangeBio:waiting_bio")
               /\ sent' = Unguarded(<<Msg(from, "send_new_bio")>>, F)
          ELSE /\ UNCHANGED <<users, fsm>>
               /\ sent' = Unguarded(<<Msg(from, "choose_menu_item")>>, F)

reg_name(from, text, F) ==
    /\ fsm[from].state = "Registration:name"
    /\ RegFrame("reg_name", from, text)
    /\ UNCHANGED <<users, profiles>>
    /\ IF text = BACK_BTN THEN BackToMenu(from, fsm[from].data.entry = {"menu"}, F)
       ELSE IF text = ""
       THEN fsm' = fsm /\ sent' = Unguarded(<<Msg(from, "name_invalid")>>, F)
       ELSE /\ fsm' = [fsm EXCEPT ![from] = [state |-> "Registration:gender",
                                             data |-> [@.data EXCEPT !.name = {text}]]]
            /\ sent' = Unguarded(<<Msg(from, "choose_gender")>>, F)

reg_gender(from, text, F) ==
    /\ fsm[from].state = "Registration:gender"
    /\ RegFrame("reg_gender", from, text)
    /\ UNCHANGED <<users, profiles>>
    /\ IF text = BACK_BTN
       THEN /\ fsm' = set_state(fsm, from, "Registration:name")
            /\ sent' = Unguarded(<<Msg(from, "send_name")>>, F)
       ELSE IF GENDER_MAP(text) = {}
       THEN fsm' = fsm /\ sent' = Unguarded(<<Msg(from, "gender_invalid")>>, F)
       ELSE /\ fsm' = [fsm EXCEPT ![from] = [state |-> "Registration:age",
                                             data |-> [@.data EXCEPT !.gender = GENDER_MAP(text)]]]
            /\ sent' = Unguarded(<<Msg(from, "send_age")>>, F)

\* variant: no lower limit on the age
Mut_age_without_lower_limit(age) == age <= 100

\* not (age < 18 or age > 100)
AgeInRange(age) == ~(age < 18 \/ age > 100)

reg_age(from, text, F) ==
    /\ fsm[from].state = "Registration:age"
    /\ RegFrame("reg_age", from, text)
    /\ UNCHANGED <<users, profiles>>
    /\ IF text = BACK_BTN
       THEN /\ fsm' = set_state(fsm, from, "Registration:gender")
            /\ sent' = Unguarded(<<Msg(from, "choose_gender")>>, F)
       ELSE IF \A age \in ParseInt(text) : ~AgeInRange(age)
       THEN fsm' = fsm /\ sent' = Unguarded(<<Msg(from, "age_invalid")>>, F)
       ELSE /\ fsm' = [fsm EXCEPT ![from] = [state |-> "Registration:city",
                                             data |-> [@.data EXCEPT !.age = ParseInt(text)]]]
            /\ sent' = Unguarded(<<Msg(from, "send_city")>>, F)

reg_city(from, text, F) ==
    /\ fsm[from].state = "Registration:city"
    /\ RegFrame("reg_city", from, text)
    /\ UNCHANGED <<users, profiles>>
    /\ IF text = BACK_BTN
       THEN /\ fsm' = set_state(fsm, from, "Registration:age")
            /\ sent' = Unguarded(<<Msg(from, "send_age")>>, F)
       ELSE IF text = ""
       THEN fsm' = fsm /\ sent' = Unguarded(<<Msg(from, "city_invalid")>>, F)
       ELSE /\ fsm' = [fsm EXCEPT ![from] = [state |-> "Registration:photo",
                                             data |-> [@.data EXCEPT !.city = {text}]]]
            /\ sent' = Unguarded(<<Msg(from, "send_photo")>>, F)

\* a photo message in the photo step; url is what the upload returns
reg_photo(from, url, F) ==
    /\ fsm[from].state = "Registration:photo"
    /\ RegFrame("reg_photo", from, "")
    /\ UNCHANGED <<users, profiles>>
    /\ IF "download" \in F.steps
       THEN fsm' = fsm /\ sent' = Unguarded(<<Msg(from, "photo_not_received")>>, F)
       ELSE IF "upload" \in F.steps
       THEN fsm' = fsm /\ sent' = Unguarded(<<Msg(from, "photo_upload_error")>>, F)
       ELSE /\ fsm' = [fsm EXCEPT ![from] = [state |-> "Registration:bio",
                                             data |-> [@.data EXCEPT !.photos = {<<url>>}]]]
            /\ sent' = Unguarded(<<Msg(from, "send_bio")>>, F)

\* any other message in the photo step
reg_photo_invalid(from, text, F) ==
    /\ fsm[from].state = "Registration:photo"
    /\ RegFrame("reg_photo_invalid", from, text)
    /\ UNCHANGED <<users, profiles>>
    /\ IF text = BACK_BTN
       THEN /\ fsm' = set_state(fsm, from, "Registration:city")
            /\ sent' = Unguarded(<<Msg(from, "send_city")>>, F)
       ELSE fsm' = fsm /\ sent' = Unguarded(<<Msg(from, "photo_invalid")>>, F)

reg_bio(from, text, t, F) ==
    /\ fsm[from].state = "Registration:bio"
    /\ pre' = Snapshot
    /\ ev' = [Ev("reg_bio", from) EXCEPT !.message = {text}, !.down = F.down, !.steps = F.steps]
    /\ now' = t
    /\ UNCHANGED <<viewed, likes, matches, chats, complaints, prompts, tasks, twin>>
    /\ IF text = BACK_BTN
       THEN /\ UNCHANGED <<users, profiles>>
            /\ fsm' = set_state(fsm, from, "Registration:photo")
            /\ sent' = Unguarded(<<Msg(from, "send_photo")>>, F)
       ELSE IF text = ""
       THEN /\ UNCHANGED <<users, profiles, fsm>>
            /\ sent' = Unguarded(<<Msg(from, "bio_invalid")>>, F)
       ELSE IF "upsert_user" \in F.steps
       THEN UNCHANGED <<users, profiles, fsm>> /\ sent' = <<>>
       ELSE
       \E r \in _create_or_update_profile(from, fsm[from].data, text, t, F) :
         /\ users' = r.users
         /\ profiles' = r.profiles
         \* the state is cleared and the confirmation sent whether or not the
         \* write raised
         /\ fsm' = IF r.failed /\ from \in F.down THEN fsm ELSE [fsm EXCEPT ![from] = Idle]
         /\ sent' = Unguarded((IF r.failed THEN <<Msg(from, "profile_save_error")>> ELSE <<>>)
                                \o <<Msg(from, "profile_saved")>>, F)

\* "back" in the two edit flows (in the registration steps the step's own
\* handler, registered earlier, takes the back text)
back_button(from, F) ==
    /\ fsm[from].state \in {"ChangePhoto:waiting_photo", "ChangeBio:waiting_bio"}
    /\ RegFrame("back_button", from, BACK_BTN)
    /\ UNCHANGED <<users, profiles>>
    /\ BackToMenu(from, TRUE, F)

\* a photo or video message in the change-media flow
change_photo_receive(from, url, F) ==
    /\ fsm[from].state = "ChangePhoto:waiting_photo"
    /\ RegFrame("change_photo_receive", from, "")
    /\ users' = users
    /\ LET p == _get_profile_for_user(from, F) IN
       IF "download" \in F.steps \/ "upload" \in F.steps
       THEN /\ UNCHANGED <<profiles, fsm>>
            /\ sent' = Unguarded(<<Msg(from, "media_upload_error")>>, F)
       ELSE IF p = {}
       THEN /\ profiles' = profiles
            /\ sent' = Unguarded(<<Msg(from, "profile_not_found")>>, F)
            /\ fsm' = After(from, F, [fsm EXCEPT ![from] = Idle])
       ELSE IF "profile_write" \in F.steps
       THEN /\ profiles' = profiles
            /\ sent' = Unguarded(<<Msg(from, "media_update_error")>>, F)
            /\ fsm' = After(from, F, [fsm EXCEPT ![from] = Idle])
       ELSE \E row \in p :
            /\ profiles' = {IF q.id = row.id THEN [q EXCEPT !.photos = <<url>>] ELSE q
                            : q \in profiles}
            /\ sent' = IF from \in F.down THEN <<>>
                       ELSE <<Msg(from, "media_updated"), Msg(from, "profile_menu")>>
            \* a failed send inside the try goes to the except branch, whose own
            \* send fails as well
            /\ fsm' = After(from, F, set_state(fsm, from, "MyProfileMenu:waiting_choice"))

\* any other message in the change-media flow (the back text goes to back_button)
change_photo_invalid(from, text, F) ==
    /\ fsm[from].state = "ChangePhoto:waiting_photo"
    /\ text # BACK_BTN
    /\ RegFrame("change_photo_invalid", from, text)
    /\ UNCHANGED <<users, profiles, fsm>>
    /\ sent' = Unguarded(<<Msg(from, "send_media_please")>>, F)

\* a message other than the back text in the change-bio flow
change_bio_receive(from, text, F) ==
    /\ fsm[from].state = "ChangeBio:waiting_bio"
    /\ text # BACK_BTN
    /\ RegFrame("change_bio_receive", from, text)
    /\ users' = users
    /\ LET p == _get_profile_for_user(from, F) IN
       IF text = ""
       THEN /\ UNCHANGED <<profiles, fsm>>
            /\ sent' = Unguarded(<<Msg(from, "bio_invalid")>>, F)
       ELSE IF p = {}
       THEN /\ profiles' = profiles
            /\ sent' = Unguarded(<<Msg(from, "profile_not_found")>>, F)
            /\ fsm' = After(from, F, [fsm EXCEPT ![from] = Idle])
       ELSE IF "profile_write" \in F.steps
       THEN /\ profiles' = profiles
            /\ sent' = Unguarded(<<Msg(from, "bio_update_error")>>, F)
            /\ fsm' = After(from, F, [fsm EXCEPT ![from] = Idle])
       ELSE \E row \in p :
            /\ profiles' = {IF q.id = row.id THEN [q EXCEPT !.bio = text] ELSE q : q \in profiles}
            /\ sent' = IF from \in F.down THEN <<>>
                       ELSE <<Msg(from, "bio_updated"), Msg(from, "profile_menu")>>
            /\ fsm' = After(from, F, set_state(fsm, from, "MyProfileMenu:waiting_choice"))

\* ------------------------------------------------------------ relay: Spec
\* Every person has a Users row (created by /start); the Matches table holds up
\* to MaxMatches canonical pairs, each active or not; no chats yet.
Pairs == {p \in UserIds \X UserIds : p[1] < p[2]}
PairId(p) == (p[1] - 1) * NUsers + p[2]
UsersRows == {[id |-> i, tg_id |-> Tg(i), is_blocked |-> FALSE] : i \in UserIds}
NoEvent == Ev("none", BotTg)
IdleFsm == [t \in Senders |-> Idle]

InitChat ==
    /\ users = UsersRows
    /\ \E cfg \in [Pairs -> {"absent", "active", "inactive"}] :
         /\ Cardinality({q \in Pairs : cfg[q] # "absent"}) <= MaxMatches
         /\ matches = {[id |-> PairId(p), user1_id |-> p[1], user2_id |-> p[2],
                        is_active |-> (cfg[p] = "active")] : p \in {q \in Pairs : cfg[q] # "absent"}}
    /\ chats = {}
    /\ profiles = {} /\ viewed = {} /\ likes = {} /\ complaints = {} /\ prompts = {} /\ tasks = {} /\ twin = {}
    /\ fsm = IdleFsm
    /\ now = 0
    /\ sent = <<>>
    /\ ev = NoEvent
    /\ pre = Snapshot

StartChat == \E from \in Senders : cmd_start_chat(from, NoFaults)
EndChat == \E from \in Senders : cmd_end_chat(from, NoFaults)
BlockUser == \E from \in Senders : cmd_block_user(from, NoFaults)

NextChat == StartChat \/ EndChat \/ BlockUser

SpecChat == InitChat /\ [][NextChat]_vars

\* ---------------------------------------------- interleaved like handlers
\* A handler runs without interruption from one await of the transport to the
\* next (the record-store client is synchronous, and _get_db_user and
\* _resolve_tg_id do not suspend).  A task is a handler suspended in a send; pc
\* names the send it is suspended in.
FreeTaskIds == (1..MaxTasks) \ {k.id : k \in tasks}

\* From the check for a reciprocal like to the next suspension: the Matches
\* table, the dialogue storage, the send issued and the send the handler is
\* suspended in.  The plain like answers the button press; the like with a
\* message clears the dialogue and confirms.
LikeContinue(op, from, me, to, target_tg) ==
    LET cm == IF _check_reciprocal_like(likes, me, to, NoFaults)
              THEN _create_match(matches, me, to, NoFaults)
              ELSE [table |-> matches, m |-> FALSE]
    IN  IF cm.m /\ target_tg # {}
        THEN [matches |-> cm.table, fsm |-> fsm, msgs |-> <<Msg(from, "match")>>,
              pc |-> "notify_match"]
        ELSE IF op = "like"
        THEN [matches |-> cm.table, fsm |-> fsm, msgs |-> <<Msg(from, "like_sent")>>,
              pc |-> "answer"]
        ELSE [matches |-> cm.table, fsm |-> [fsm EXCEPT ![from] = Idle],
              msgs |-> <<Msg(from, "like_with_message_sent")>>, pc |-> "answer"]

\* a like handler from its start to its first suspension; `me` is the Users
\* row the handler resolved as the actor
LikeBegin(id, op, from, me, to, message_text) ==
    /\ pre' = Snapshot
    /\ ev' = [Ev(op, from) EXCEPT !.target = to, !.message = message_text]
    /\ UNCHANGED <<users, profiles, viewed, chats, complaints, prompts, twin, now>>
    /\ likes' = _insert_like(me.id, to, message_text, {}, NoFaults)
    /\ LET target_tg == _resolve_tg_id(to, NoFaults)
           my_profile == {p \in profiles : p.user_id = me.id}
           task == [id |-> id, op |-> op, from |-> from, me |-> me.id, to |-> to,
                    target_tg |-> target_tg, pc |-> "notify_like"]
       IN  IF target_tg # {} /\ my_profile # {}
           THEN /\ sent' = <<Msg(CHOOSE g \in target_tg : TRUE, "new_like")>>
                /\ tasks' = tasks \cup {task}
                /\ UNCHANGED <<matches, fsm>>
           ELSE \* no send, no suspension: the handler goes on with the like just stored
                LET cm == IF _check_reciprocal_like(likes', me.id, to, NoFaults)
                          THEN _create_match(matches, me.id, to, NoFaults)
                          ELSE [table |-> matches, m |-> FALSE]
                IN  /\ matches' = cm.table
                    /\ IF cm.m /\ target_tg # {}
                       THEN /\ sent' = <<Msg(from, "match")>> /\ fsm' = fsm
                            /\ tasks' = tasks \cup {[task EXCEPT !.pc = "notify_match"]}
                       ELSE /\ sent' = <<Msg(from, IF op = "like" THEN "like_sent"
                                                   ELSE "like_with_message_sent")>>
                            /\ fsm' = IF op = "like" THEN fsm ELSE [fsm EXCEPT ![from] = Idle]
                            /\ tasks' = tasks \cup {[task EXCEPT !.pc = "answer"]}

\* a press of the like button, up to the first suspension
feed_actions_like_begin(id, from, to_user_id) ==
    /\ get_user_by_tg_id(BotTg) # {}
    /\ LikeBegin(id, "like", from, CHOOSE u \in get_user_by_tg_id(BotTg) : TRUE, to_user_id, {})

\* a text in LikeWithMessage.waiting_text, up to the first suspension
like_with_message_begin(id, from, text) ==
    /\ fsm[from].state = "LikeWithMessage:waiting_text"
    /\ get_user_by_tg_id(from) # {} /\ fsm[from].data.target_user_id # {} /\ text # ""
    /\ LikeBegin(id, "like_with_message", from, CHOOSE u \in get_user_by_tg_id(from) : TRUE,
                 CHOOSE x \in fsm[from].data.target_user_id : TRUE, {text})

\* the send a like handler was suspended in returns, and the handler runs to
\* its next suspension or to its end
like_resume(k) ==
    /\ k \in tasks /\ k.op \in {"like", "like_with_message"}
    /\ pre' = Snapshot
    /\ ev' = [Ev(k.op, k.from) EXCEPT !.target = k.to]
    /\ UNCHANGED <<users, profiles, likes, chats, complaints, prompts, twin, now>>
    /\ CASE k.pc = "notify_like" ->
              LET r == LikeContinue(k.op, k.from, k.me, k.to, k.target_tg) IN
              /\ matches' = r.matches /\ fsm' = r.fsm /\ sent' = r.msgs
              /\ viewed' = viewed
              /\ tasks' = (tasks \ {k}) \cup {[k EXCEPT !.pc = r.pc]}
         [] k.pc = "notify_match" ->
              /\ sent' = <<Msg(CHOOSE g \in k.target_tg : TRUE, "match")>>
              /\ tasks' = (tasks \ {k}) \cup {[k EXCEPT !.pc = "notify_match_other"]}
              /\ UNCHANGED <<matches, fsm, viewed>>
         [] k.pc = "notify_match_other" ->
              /\ sent' = <<Msg(k.from, IF k.op = "like" THEN "like_sent"
                                       ELSE "like_with_message_sent")>>
              /\ fsm' = IF k.op = "like" THEN fsm ELSE [fsm EXCEPT ![k.from] = Idle]
              /\ tasks' = (tasks \ {k}) \cup {[k EXCEPT !.pc = "answer"]}
              /\ UNCHANGED <<matches, viewed>>
         [] k.pc = "answer" ->
              /\ tasks' = tasks \ {k}
              /\ UNCHANGED <<matches, fsm>>
              /\ IF k.op = "like"
                 THEN LET me == CHOOSE u \in users : u.id = k.me
                          found == _fetch_next_profile(k.me, now)
                      IN  \E next \in (IF found = {} THEN {{}} ELSE {{q} : q \in found}) :
                            LET r == ShowNext(me, k.from, "like_sent", next, now, NoFaults)
                            IN  sent' = Tail(r.msgs) /\ viewed' = r.viewed
                 ELSE sent' = <<>> /\ viewed' = viewed

\* ------------------------------------------------ relay and handshake: Specs
\* Three extensions of the relay session commands: with reports, with relayed
\* messages, and with the contact-exchange handshake (buttons are pressed by
\* those who were sent a prompt).
MaxComplaints == 1
MaxPrompts == 1
ReportTexts == {<<"/report">>, <<"/report", " ">>, <<"/report", " ", "spam">>,
                <<"/report", " ", " ", "spam", " ">>}
CbActions == {"approve", "reject"}
InDialogue == [IdleFsm EXCEPT ![Tg(1)] = [state |-> "Registration:name",
                                          data |-> [NoData EXCEPT !.entry = {"start"}]]]

\* User 2 is matched with user 1 and with user 3 (each match active or not);
\* nobody has a chat yet, and user 1 is idle or registering.
TalkPairs == {<<1, 2>>, <<2, 3>>}
InitTalk ==
    /\ users = UsersRows
    /\ \E cfg \in [TalkPairs -> BOOLEAN] :
         matches = {[id |-> PairId(p), user1_id |-> p[1], user2_id |-> p[2],
                     is_active |-> cfg[p]] : p \in TalkPairs}
    /\ chats = {}
    /\ profiles = {} /\ viewed = {} /\ likes = {} /\ complaints = {} /\ prompts = {} /\ tasks = {} /\ twin = {}
    /\ fsm \in {IdleFsm, InDialogue}
    /\ now = 0
    /\ sent = <<>>
    /\ ev = NoEvent
    /\ pre = Snapshot

Report ==
    /\ Cardinality(complaints) < MaxComplaints
    /\ \E from \in Senders, text \in ReportTexts : cmd_report(from, text, NoFaults)
NextReport == StartChat \/ EndChat \/ Report
SpecReport == InitTalk /\ [][NextReport]_vars

\* StartChat and EndChat where the Chats insert, the Chats update and the
\* delivery to users 1 and 2 may fail
ChatFaults == [steps : SUBSET {"create_chat", "end_chat"}, down : SUBSET {Tg(1), Tg(2)}]
StartChatUnreliable == \E from \in Senders : \E F \in ChatFaults : cmd_start_chat(from, F)
EndChatUnreliable == \E from \in Senders : \E F \in ChatFaults : cmd_end_chat(from, F)
NextTalkUnreliable == StartChatUnreliable \/ EndChatUnreliable
SpecTalkUnreliable == InitTalk /\ [][NextTalkUnreliable]_vars

\* BlockUser where either of its two updates may raise
BlockFaults == [steps : SUBSET {"block_user", "block_chat"}, down : {{}}]
BlockUserFaulty == \E from \in Senders : \E F \in BlockFaults : cmd_block_user(from, F)
NextBlockFaulty == StartChat \/ EndChat \/ BlockUserFaulty
SpecBlockFaulty == InitTalk /\ [][NextBlockFaulty]_vars

NextTalkBlock == StartChat \/ EndChat \/ BlockUser
SpecTalkBlock == InitTalk /\ [][NextTalkBlock]_vars

Proxy == \E from \in Senders : proxy_messages(from, NoFaults)
NextRelay == StartChat \/ EndChat \/ Proxy
SpecRelay == InitTalk /\ [][NextRelay]_vars

ShareContact ==
    /\ Cardinality(prompts) < MaxPrompts
    /\ \E from \in Senders : cmd_share_contact(from, NoFaults)
PressButton ==
    \E pr \in prompts, action \in CbActions :
        cb_share_contact(pr.to, _cb(action, pr.match_id), NoFaults)
NextContact == StartChat \/ EndChat \/ ShareContact \/ PressButton
SpecContact == InitTalk /\ [][NextContact]_vars

\* ------------------------------------------------------------ feed: Spec
\* User 1 is the viewer: no profile, or one of a few gender/city combinations.
\* Users 2..NCand+1 own the candidate profiles: active with any combination of
\* gender, city and boost, or paused; profile i was created after profile i-1.
\* One more user, without a profile, was shown every candidate at time 0.
CandIds == 2..(NCand + 1)
Bystander == NCand + 2
FeedUsersRows ==
    {[id |-> i, tg_id |-> Tg(i), is_blocked |-> FALSE] : i \in 1..Bystander}
ProfileRow(user_id, gender, city, active, boost) ==
    [id |-> user_id, user_id |-> user_id, name |-> "n", gender |-> gender, age |-> 18,
     city |-> city, photos |-> <<"url">>, bio |-> "b", is_active |-> active,
     boosted_until |-> boost, created_at |-> user_id]
ViewerProfiles ==
    {{}} \cup {{ProfileRow(1, g[1], g[2], TRUE, {})} :
                 g \in {<<"male", "Paris">>, <<"other", "Paris">>, <<"male", "">>}}
CandidateProfiles(i) ==
    {ProfileRow(i, g, c, TRUE, b) :
        g \in {"male", "female"}, c \in {"Paris", "Rome"}, b \in {{}, {1}, {MaxTime}}}
    \cup {ProfileRow(i, "female", "Paris", FALSE, b) : b \in {{}, {MaxTime}}}

InitFeed ==
    /\ users = FeedUsersRows
    /\ \E own \in ViewerProfiles :
       \E cand \in [CandIds -> UNION {CandidateProfiles(i) : i \in CandIds}] :
         /\ \A i \in CandIds : cand[i].user_id = i
         /\ profiles = own \cup {cand[i] : i \in CandIds}
    /\ viewed = {[user_id |-> Bystander, profile_id |-> i, viewed_at |-> 0] : i \in CandIds}
    /\ likes = {} /\ matches = {} /\ chats = {} /\ complaints = {} /\ prompts = {} /\ tasks = {} /\ twin = {}
    /\ fsm = IdleFsm
    /\ now = 0
    /\ sent = <<>>
    /\ ev = NoEvent
    /\ pre = Snapshot

Feed == \E from \in {Tg(1), StrangerTg} : \E t \in ClockReadings : cmd_feed(from, t, NoFaults)

NextFeed == Feed

SpecFeed == InitFeed /\ [][NextFeed]_vars

\* ------------------------------------------------------------- likes: Spec
\* Users 1 and 2 have profiles and press the buttons under each other's cards.
\* Registration never sees the bot's own account, so a Users row for it can only
\* come from outside the program; both cases are covered.
Likers == {1, 2}
BotUsersRow == [id |-> NUsers + 1, tg_id |-> BotTg, is_blocked |-> FALSE]
Actions == {"skip", "like", "like_msg", "like_vid"}
Texts == {"", "hi"}
VideoUrls == {"v"}

InitLike ==
    /\ \E bot \in SUBSET {BotUsersRow} : users = UsersRows \cup bot
    /\ profiles = {ProfileRow(1, "male", "Paris", TRUE, {}), ProfileRow(2, "female", "Paris", TRUE, {})}
    /\ viewed = {} /\ likes = {} /\ matches = {} /\ chats = {} /\ complaints = {} /\ prompts = {} /\ tasks = {} /\ twin = {}
    /\ fsm = IdleFsm
    /\ now = 0
    /\ sent = <<>>
    /\ ev = NoEvent
    /\ pre = Snapshot

Press ==
    \E a \in Likers : \E b \in Likers \ {a} : \E action \in Actions :
        feed_actions(Tg(a), action, b, now, NoFaults)
LikeWithMessage == \E a \in Likers : \E text \in Texts : like_with_message(Tg(a), text, NoFaults)
LikeWithVideo == \E a \in Likers : \E url \in VideoUrls : like_with_video(Tg(a), url, NoFaults)

NextLike == Press \/ LikeWithMessage \/ LikeWithVideo

SpecLike == InitLike /\ [][NextLike]_vars

\* ------------------------------------------------ feed and skip button: Spec
\* User 1, a man in Paris, asks for the feed and presses the skip button under
\* the cards; users 2 and 3 are women in Paris, user 3 without a photo.  Sending
\* the photo, writing the view and reaching user 1 may each fail.  The bot's own
\* account may have a Users row.
ShowFaults == [steps : SUBSET {"answer_photo", "mark_viewed"}, down : SUBSET {Tg(1)}]
InitShow ==
    /\ \E bot \in SUBSET {BotUsersRow} : users = UsersRows \cup bot
    /\ profiles = {ProfileRow(1, "male", "Paris", TRUE, {}),
                   ProfileRow(2, "female", "Paris", TRUE, {}),
                   [ProfileRow(3, "female", "Paris", TRUE, {}) EXCEPT !.photos = <<>>]}
    /\ viewed = {} /\ likes = {} /\ matches = {} /\ chats = {} /\ complaints = {}
    /\ prompts = {} /\ tasks = {} /\ twin = {}
    /\ fsm = IdleFsm
    /\ now = 0
    /\ sent = <<>>
    /\ ev = NoEvent
    /\ pre = Snapshot
FeedUnreliable == \E t \in ClockReadings : \E F \in ShowFaults : cmd_feed(Tg(1), t, F)
SkipUnreliable ==
    \E b \in {2, 3} : \E t \in ClockReadings : \E F \in ShowFaults :
        feed_actions(Tg(1), "skip", b, t, F)
NextShow == FeedUnreliable \/ SkipUnreliable
SpecShow == InitShow /\ [][NextShow]_vars

\* ------------------------------------------ likes with a failing upsert: Spec
\* As the likes specification, but the Likes upsert of a like with a message
\* may raise.
UpsertFaults == [steps : SUBSET {"like_upsert"}, down : {{}}]
LikeWithMessageFaulty ==
    \E a \in Likers : \E text \in Texts : \E F \in UpsertFaults : like_with_message(Tg(a), text, F)
NextLikeFaulty == Press \/ LikeWithMessageFaulty
SpecLikeFaulty == InitLike /\ [][NextLikeFaulty]_vars

\* --------------------------------------- likes with delivery failures: Spec
\* As the likes specification, but while a like with a message or a video is
\* handled any of the two users may be unreachable: every send to an
\* unreachable user raises.
DeliveryFaults == [steps : {{}}, down : SUBSET {Tg(i) : i \in Likers}]
LikeWithMessageUnreliable ==
    \E a \in Likers : \E text \in Texts : \E F \in DeliveryFaults : like_with_message(Tg(a), text, F)
LikeWithVideoUnreliable ==
    \E a \in Likers : \E url \in VideoUrls : \E F \in DeliveryFaults : like_with_video(Tg(a), url, F)

NextLikeUnreliable == Press \/ LikeWithMessageUnreliable \/ LikeWithVideoUnreliable

SpecLikeUnreliable == InitLike /\ [][NextLikeUnreliable]_vars

\* ------------------------------------------------ likes and chats: Spec
\* Likes together with the relay session commands.  User 2 has liked user 1
\* already; user 1 presses the buttons under the card of user 2, and everybody
\* may open, end and block chats.
Suitor == 1
Courted == 2
InitLikeChat ==
    /\ users = UsersRows \cup {BotUsersRow}
    /\ profiles = {ProfileRow(1, "male", "Paris", TRUE, {}), ProfileRow(2, "female", "Paris", TRUE, {})}
    /\ likes = {[id |-> 1, from_user_id |-> Courted, to_user_id |-> Suitor,
                 message |-> {}, video_url |-> {}]}
    /\ viewed = {} /\ matches = {} /\ chats = {} /\ complaints = {} /\ prompts = {} /\ tasks = {} /\ twin = {}
    /\ fsm = IdleFsm
    /\ now = 0
    /\ sent = <<>>
    /\ ev = NoEvent
    /\ pre = Snapshot
SuitorPress == \E action \in Actions : feed_actions(Tg(Suitor), action, Courted, now, NoFaults)
SuitorLikeWithMessage == \E text \in Texts : like_with_message(Tg(Suitor), text, NoFaults)
SuitorLikeWithVideo == \E url \in VideoUrls : like_with_video(Tg(Suitor), url, NoFaults)

NextLikeChat ==
    SuitorPress \/ SuitorLikeWithMessage \/ SuitorLikeWithVideo \/ StartChat \/ EndChat \/ BlockUser

SpecLikeChat == InitLikeChat /\ [][NextLikeChat]_vars

\* ------------------------------------------------- blocked flags ignored: Spec
\* Two runs that differ only in the blocked flags of the Users rows.  The first
\* run starts with any flags and handles feed requests, button presses, likes
\* with a message, StartChat, EndChat, relayed messages and the contact
\* exchange.  After any event the second run takes over: the tables are put back
\* as they were before the event, the Users rows with other flags, and the
\* outcome of the first run is kept in twin for comparison.
Pair == {Suitor, Courted}
Flagged(U, flags) ==
    {[u EXCEPT !.is_blocked = IF u.id \in Pair THEN flags[u.id] ELSE @] : u \in U}
InitBlind ==
    /\ \E flags \in [Pair -> BOOLEAN] : users = Flagged(UsersRows \cup {BotUsersRow}, flags)
    /\ profiles = {ProfileRow(1, "male", "Paris", TRUE, {}), ProfileRow(2, "female", "Paris", TRUE, {})}
    /\ likes = {[id |-> 1, from_user_id |-> Courted, to_user_id |-> Suitor,
                 message |-> {}, video_url |-> {}]}
    /\ viewed = {} /\ matches = {} /\ chats = {} /\ complaints = {} /\ prompts = {} /\ tasks = {} /\ twin = {}
    /\ fsm = IdleFsm
    /\ now = 0
    /\ sent = <<>>
    /\ ev = NoEvent
    /\ pre = Snapshot
PairFeed == cmd_feed(Tg(Suitor), now, NoFaults)
PairPress == feed_actions(Tg(Suitor), "like_msg", Courted, now, NoFaults)
PairLikeWithMessage == like_with_message(Tg(Suitor), "hi", NoFaults)
PairStartChat == \E i \in Pair : cmd_start_chat(Tg(i), NoFaults)
PairEndChat == \E i \in Pair : cmd_end_chat(Tg(i), NoFaults)
PairProxy == \E i \in Pair : proxy_messages(Tg(i), NoFaults)
PairShareContact ==
    /\ Cardinality(prompts) < MaxPrompts
    /\ \E i \in Pair : cmd_share_contact(Tg(i), NoFaults)
Operations ==
    \/ PairFeed \/ PairPress \/ PairLikeWithMessage
    \/ PairStartChat \/ PairEndChat \/ PairProxy \/ PairShareContact \/ PressButton
Outcome == [ev |-> ev, sent |-> sent, likes |-> likes, matches |-> matches, chats |-> chats,
            viewed |-> viewed]
FirstRun == twin = {} /\ Operations
Replay ==
    /\ twin = {} /\ ev.op # "none"
    /\ \E flags \in [Pair -> BOOLEAN] :
         /\ Flagged(pre.users, flags) # pre.users
         /\ users' = Flagged(pre.users, flags)
    /\ profiles' = pre.profiles /\ viewed' = pre.viewed /\ likes' = pre.likes
    /\ matches' = pre.matches /\ chats' = pre.chats /\ complaints' = pre.complaints
    /\ prompts' = pre.prompts /\ fsm' = pre.fsm
    /\ twin' = {Outcome}
    /\ UNCHANGED <<tasks, now, sent, ev, pre>>
\* the second run handles the same event with the same outcome
Repeat(r) ==
    /\ Operations
    /\ ev' = r.ev /\ sent' = r.sent /\ likes' = r.likes /\ matches' = r.matches
    /\ chats' = r.chats /\ viewed' = r.viewed
NextBlind == FirstRun \/ Replay
SpecBlind == InitBlind /\ [][NextBlind]_vars

\* ------------------------------------------------ reciprocal-like race: Spec
\* Users 1 and 2 have each other's card on screen and have both pressed "like
\* with a message"; their like handlers (plain and with a message) interleave.
RaceFsm == [t \in Senders |->
              IF t = Tg(1) THEN [state |-> "LikeWithMessage:waiting_text",
                                 data |-> [NoData EXCEPT !.target_user_id = {2}]]
              ELSE IF t = Tg(2) THEN [state |-> "LikeWithMessage:waiting_text",
                                      data |-> [NoData EXCEPT !.target_user_id = {1}]]
              ELSE Idle]
InitRace ==
    /\ users = UsersRows \cup {BotUsersRow}
    /\ profiles = {ProfileRow(1, "male", "Paris", TRUE, {}), ProfileRow(2, "female", "Paris", TRUE, {})}
    /\ viewed = {} /\ likes = {} /\ matches = {} /\ chats = {} /\ complaints = {} /\ prompts = {}
    /\ tasks = {} /\ twin = {}
    /\ fsm = RaceFsm
    /\ now = 0
    /\ sent = <<>>
    /\ ev = NoEvent
    /\ pre = Snapshot
BeginLike ==
    \E id \in FreeTaskIds : \E a \in Likers : \E b \in Likers \ {a} :
        feed_actions_like_begin(id, Tg(a), b)
BeginLikeWithMessage ==
    \E id \in FreeTaskIds : \E a \in Likers : like_with_message_begin(id, Tg(a), "hi")
ResumeLike == \E k \in tasks : like_resume(k)

NextRace == BeginLike \/ BeginLikeWithMessage \/ ResumeLike

SpecRace == InitRace /\ [][NextRace]_vars

\* ------------------------------------------------ interleaved StartChat: Spec
\* Users 1 and 2, the members of one match, run StartChat, each possibly more
\* than once at a time; user 2 is matched with user 3 as well.
Starters == {Tg(1), Tg(2)}
BeginStartChat == \E id \in FreeTaskIds : \E from \in Starters : start_chat_begin(id, from)
ResumeStartChat == \E k \in tasks : start_chat_resume(k)

NextStartRace == BeginStartChat \/ ResumeStartChat

SpecStartRace == InitTalk /\ [][NextStartRace]_vars

\* ---------------------------------------------------------- dialogue: Spec
\* Telegram user 101 talks to the bot; the Users row and the profile may
\* already exist.  User 2 has a profile throughout.
Registrant == Tg(1)
NameTexts == {"", BACK_BTN, "ann", "bob"}
GenderTexts == {BACK_BTN, "Zhenskiy", "cat"}
AgeTexts == {BACK_BTN, "25", "17", "abc"}
CityTexts == {"", BACK_BTN, "Paris"}
PhotoTexts == {BACK_BTN, "hello"}
BioTexts == {"", BACK_BTN, "b1", "b2"}
MenuTexts == {"1", "2. register again", "3", "4", "hello"}
NewBios == {"", "b3"}

InitReg ==
    /\ \E known \in BOOLEAN : \E registered \in BOOLEAN :
         /\ registered => known
         /\ users = IF known THEN UsersRows ELSE {u \in UsersRows : u.id # 1}
         /\ profiles = {ProfileRow(2, "female", "Paris", TRUE, {})}
                       \cup IF registered THEN {ProfileRow(1, "male", "Paris", TRUE, {1})} ELSE {}
    /\ viewed = {} /\ likes = {} /\ matches = {} /\ chats = {} /\ complaints = {} /\ prompts = {} /\ tasks = {} /\ twin = {}
    /\ fsm = IdleFsm
    /\ now = 0
    /\ sent = <<>>
    /\ ev = NoEvent
    /\ pre = Snapshot

Start == start_handler(Registrant, NoFaults)
CreateButton == create_profile_button(Registrant, NoFaults)
MenuChoice == \E choice \in MenuTexts : myprofile_choice(Registrant, choice, now, NoFaults)
RegName == \E text \in NameTexts : reg_name(Registrant, text, NoFaults)
RegGender == \E text \in GenderTexts : reg_gender(Registrant, text, NoFaults)
RegAge == \E text \in AgeTexts : reg_age(Registrant, text, NoFaults)
RegCity == \E text \in CityTexts : reg_city(Registrant, text, NoFaults)
RegPhoto == reg_photo(Registrant, "url1", NoFaults)
RegPhotoInvalid == \E text \in PhotoTexts : reg_photo_invalid(Registrant, text, NoFaults)
RegBio == \E text \in BioTexts : \E t \in ClockReadings : reg_bio(Registrant, text, t, NoFaults)
BackButton == back_button(Registrant, NoFaults)
ChangePhotoReceive == change_photo_receive(Registrant, "url2", NoFaults)
ChangePhotoInvalid == change_photo_invalid(Registrant, "hello", NoFaults)
ChangeBioReceive == \E text \in NewBios : change_bio_receive(Registrant, text, NoFaults)

NextReg ==
    \/ Start \/ CreateButton \/ MenuChoice
    \/ RegName \/ RegGender \/ RegAge \/ RegCity \/ RegPhoto \/ RegPhotoInvalid \/ RegBio
    \/ BackButton \/ ChangePhotoReceive \/ ChangePhotoInvalid \/ ChangeBioReceive

SpecReg == InitReg /\ [][NextReg]_vars

\* --------------------------------------- registration and card buttons: Spec
\* User 1 goes through the first registration steps and, at any point, presses a
\* button under a card of user 2 shown earlier or answers its prompt.  The
\* bot's own account has a Users row, without which no button does anything.
InitRegPress ==
    /\ users = UsersRows \cup {BotUsersRow}
    /\ profiles = {ProfileRow(2, "female", "Paris", TRUE, {})}
    /\ viewed = {} /\ likes = {} /\ matches = {} /\ chats = {} /\ complaints = {} /\ prompts = {}
    /\ tasks = {} /\ twin = {}
    /\ fsm = IdleFsm
    /\ now = 0
    /\ sent = <<>>
    /\ ev = NoEvent
    /\ pre = Snapshot
RegistrantPress ==
    \E action \in {"like_msg", "like_vid"} : feed_actions(Registrant, action, 2, now, NoFaults)
RegistrantLikeWithMessage == \E text \in Texts : like_with_message(Registrant, text, NoFaults)
NextRegPress ==
    \/ CreateButton \/ RegName \/ RegGender \/ RegAge
    \/ RegistrantPress \/ RegistrantLikeWithMessage
SpecRegPress == InitRegPress /\ [][NextRegPress]_vars

\* ------------------------------------------- registration, failing write: Spec
\* The registration steps alone, where the Profiles write of the Bio step may
\* raise.
WriteFaults == [steps : SUBSET {"profile_write"}, down : {{}}]
RegBioUnreliable ==
    \E text \in BioTexts : \E t \in ClockReadings : \E F \in WriteFaults :
        reg_bio(Registrant, text, t, F)
NextRegWrite ==
    \/ CreateButton
    \/ RegName \/ RegGender \/ RegAge \/ RegCity \/ RegPhoto \/ RegPhotoInvalid
    \/ RegBioUnreliable
SpecRegWrite == InitReg /\ [][NextRegWrite]_vars

\* ------------------------------------------------------------ relay claims
MatchesOf(M, user_id) == {m \in M : m.user1_id = user_id \/ m.user2_id = user_id}
ActiveChatsOf(C, M, user_id) ==
    {c \in C : c.is_active /\ c.match_id \in {m.id : m \in MatchesOf(M, user_id)}}

\* C1: in every reachable state each user (the caller of StartChat and the
\* counterpart of the chosen match alike) has at most one active Chat over all
\* the Matches the user belongs to.
C1_AtMostOneActiveChatPerUser ==
    \A u \in UserIds : Cardinality(ActiveChatsOf(chats, matches, u)) <= 1

\* The caller of the last handled event, as a Users row id (0: no Users row).
Caller == IF get_user_by_tg_id(ev.from) = {} THEN 0
          ELSE (CHOOSE u \in get_user_by_tg_id(ev.from) : TRUE).id

\* The last event was a StartChat by a user who had an active chat and another
\* active match without one.
C2_Case ==
    /\ ev.op = "start_chat"
    /\ Caller # 0
    /\ ActiveChatsOf(pre.chats, pre.matches, Caller) # {}
    /\ \E m \in MatchesOf(pre.matches, Caller) :
         m.is_active /\ ~\E c \in pre.chats : c.is_active /\ c.match_id = m.id

\* C2: after StartChat by a user who had an active Chat and another active Match
\* without one, every Chat that was active on any of the user's matches is
\* inactive and exactly one new Chat exists, active, on a Match of the user that
\* was active and had no active Chat.
C2_StartChatReplacesActiveChats ==
    C2_Case =>
        /\ \A c \in ActiveChatsOf(pre.chats, pre.matches, Caller) :
             \E d \in chats : d.id = c.id /\ ~d.is_active
        /\ LET new == {c \in chats : c.id \notin {d.id : d \in pre.chats}}
           IN  /\ Cardinality(new) = 1
               /\ \A c \in new :
                    /\ c.is_active
                    /\ \E m \in MatchesOf(pre.matches, Caller) :
                         /\ m.id = c.match_id /\ m.is_active
                         /\ ~\E d \in pre.chats : d.is_active /\ d.match_id = m.id
               /\ ActiveChatsOf(chats, matches, Caller) = new

C2_Witness ==
    /\ C2_Case
    /\ \E c \in chats : c.is_active /\ c.id \notin {d.id : d \in pre.chats}
    /\ \E c \in chats : ~c.is_active /\ \E d \in pre.chats : d.id = c.id /\ d.is_active

\* ------------------------------------------------------------- like claims
MatchesBetween(a, b) ==
    {m \in matches : {m.user1_id, m.user2_id} = {a, b}}
Liked(L, a, b) == \E l \in L : l.from_user_id = a /\ l.to_user_id = b
UserRowIds == {u.id : u \in users}

\* C3: for users A # B there is at most one Match row for the unordered pair
\* {A,B}; once likes A->B and B->A are both stored there is exactly one, and it
\* has user1_id < user2_id.
C3_OneCanonicalMatchPerPair ==
    \A a, b \in UserRowIds :
        a # b =>
            /\ Cardinality(MatchesBetween(a, b)) <= 1
            /\ Liked(likes, a, b) /\ Liked(likes, b, a) =>
                 /\ Cardinality(MatchesBetween(a, b)) = 1
                 /\ \A m \in MatchesBetween(a, b) : m.user1_id < m.user2_id

\* a like repeated between two matched users: reciprocity is detected again and
\* the Match row stays the only one
C3_Witness ==
    /\ ev.op \in {"like_with_message", "like_with_video"}
    /\ Caller # 0 /\ ev.target # 0 /\ ev.target # Caller
    /\ Liked(pre.likes, Caller, ev.target) /\ Liked(pre.likes, ev.target, Caller)
    /\ pre.matches # {}
    /\ Cardinality(MatchesBetween(Caller, ev.target)) = 1

\* C4: at most one Like row per ordered pair (from, to); after a like with a
\* payload the pair's row carries exactly that like's message and video_url, a
\* null of the new like replacing what the row held before.
C4_OneLikePerOrderedPair ==
    /\ \A l1, l2 \in likes :
         l1.from_user_id = l2.from_user_id /\ l1.to_user_id = l2.to_user_id => l1 = l2
    /\ ev.op \in {"like_with_message", "like_with_video"} /\ Caller # 0 /\ ev.target # 0 =>
         \E l \in likes :
            /\ l.from_user_id = Caller /\ l.to_user_id = ev.target
            /\ l.message = ev.message /\ l.video_url = ev.video_url

\* a like with a video after a like with a text to the same target: the stored
\* text is gone
C4_Witness ==
    /\ ev.op = "like_with_video" /\ Caller # 0 /\ ev.target # 0
    /\ \E l \in pre.likes :
         l.from_user_id = Caller /\ l.to_user_id = ev.target /\ l.message # {}
    /\ \E l \in likes :
         /\ l.from_user_id = Caller /\ l.to_user_id = ev.target
         /\ l.message = {} /\ l.video_url # {}

\* C5: after a press of the plain like button by a viewer under the card of a
\* target, a Like row from the viewer (the user who pressed) to the target exists.
C5_PlainLikeIsFromPresser ==
    ev.op = "like" => Caller # 0 /\ Liked(likes, Caller, ev.target)

\* ------------------------------------------------------------- feed claims
\* The last event was a feed request by a known user, handled at time `now`.
FeedCase == ev.op = "feed" /\ Caller # 0
OwnProfile == {p \in pre.profiles : p.user_id = Caller}
Shown == {p \in pre.profiles : p.id \in ev.shown}
\* the viewer's showings of the last 2 days, as recorded before the request
RecentlyShown ==
    {r.profile_id : r \in {x \in pre.viewed : x.user_id = Caller
                                              /\ x.viewed_at >= now - ViewWindowDays}}
LiveBoost(p) == p.boosted_until # {} /\ BoostOf(p) >= now
\* the selector's filters as the specification words them; gendered = FALSE
\* leaves the gender restriction out
Passes(p, gendered) ==
    /\ p.is_active
    /\ p.user_id # Caller
    /\ p.id \notin RecentlyShown
    /\ \A q \in OwnProfile :
         /\ q.city # "" => p.city = q.city
         /\ gendered /\ q.gender = "male" => p.gender = "female"
         /\ gendered /\ q.gender = "female" => p.gender = "male"
Eligible == {p \in pre.profiles : Passes(p, TRUE)}
EligibleBoosted == {p \in Eligible : LiveBoost(p)}

\* C6: a feed request never shows a profile for which the viewer's log holds a
\* row with viewed_at within the last 2 days.
C6_NeverShowsRecentlyViewed ==
    FeedCase => \A p \in Shown : p.id \notin RecentlyShown

\* a profile seen within the window is withheld while one seen before the
\* window is shown again
C6_Witness ==
    /\ FeedCase
    /\ \E p \in Shown : \E r \in pre.viewed : r.user_id = Caller /\ r.profile_id = p.id
    /\ \E r \in pre.viewed :
         /\ r.user_id = Caller /\ r.profile_id \in RecentlyShown
         /\ \E p \in pre.profiles :
              p.id = r.profile_id /\ p.is_active /\ LiveBoost(p) /\ p \notin Shown

\* C7: when some candidate passing the filters has boosted_until >= now, the
\* request shows one of those with the greatest boosted_until; a candidate
\* without a live boost is shown only when no candidate passing the filters has
\* one, and then it is one with the latest created_at.
C7_BoostedFirstThenRecency ==
    FeedCase =>
        /\ EligibleBoosted # {} =>
             \E p \in EligibleBoosted :
                /\ Shown = {p}
                /\ \A q \in EligibleBoosted : BoostOf(q) <= BoostOf(p)
        /\ \A p \in Shown :
             ~LiveBoost(p) =>
                /\ EligibleBoosted = {}
                /\ \A q \in Eligible : q.created_at <= p.created_at

\* the longer boost wins over a later-created profile with a shorter boost
C7_Witness ==
    /\ FeedCase
    /\ \E p \in Shown : \E q \in EligibleBoosted :
         BoostOf(q) < BoostOf(p) /\ q.created_at > p.created_at

C9_Scenario(B, N) ==
    /\ FeedCase
    /\ \E q \in OwnProfile : q.gender = "male" /\ q.city # ""
    /\ Eligible = {B, N} /\ B # N
    /\ LiveBoost(B) /\ N.boosted_until = {}

\* C9: in that scenario the request shows B and records the showing, and the
\* viewer's next request, made while that showing is in the 2-day window, shows N.
C9_BoostedThenOther ==
    [][\A B, N \in profiles :
         /\ C9_Scenario(B, N)' =>
               /\ ev'.shown = {B.id}
               /\ \E r \in viewed' : r.user_id = Caller' /\ r.profile_id = B.id /\ r.viewed_at = now'
         /\ ( /\ C9_Scenario(B, N) /\ ev.shown = {B.id}
              /\ ev'.op = "feed" /\ ev'.from = ev.from
              /\ \E r \in viewed : /\ r.user_id = Caller /\ r.profile_id = B.id
                                   /\ r.viewed_at >= now' - ViewWindowDays )
            => ev'.shown = {N.id}]_vars

\* the second request of the scenario has shown N after B
C9_Witness ==
    /\ FeedCase
    /\ \E q \in OwnProfile : q.gender = "male" /\ q.city # ""
    /\ \E B, N \in pre.profiles :
         /\ B # N /\ LiveBoost(B) /\ N.boosted_until = {} /\ Shown = {N}
         /\ {p \in pre.profiles : Passes(p, TRUE) \/ p = B} = {B, N}
         /\ \A r \in pre.viewed : r.user_id = Caller => r.profile_id = B.id
         /\ \E r \in pre.viewed : r.user_id = Caller /\ r.profile_id = B.id

\* --------------------------------------------------------- dialogue claims
ProfilesOf(P, user_id) == {p \in P : p.user_id = user_id}
\* the last event completed the Bio step (a non-empty text other than "back")
BioCompleted == ev.op = "reg_bio" /\ ev.message \cap {"", BACK_BTN} = {}

\* C10: a user never has more than one Profile row, and after every Bio
\* completion has exactly one: the completion inserts a row when the user had
\* none and otherwise updates the existing row, adding none.
C10_OneProfilePerUser ==
    /\ \A u \in users : Cardinality(ProfilesOf(profiles, u.id)) <= 1
    /\ BioCompleted =>
         /\ Cardinality(ProfilesOf(profiles, Caller)) = 1
         /\ IF ProfilesOf(pre.profiles, Caller) = {}
            THEN \E p \in profiles : p \notin pre.profiles /\ profiles = pre.profiles \cup {p}
            ELSE /\ {p.id : p \in profiles} = {p.id : p \in pre.profiles}
                 /\ \A p \in profiles : p.user_id # Caller => p \in pre.profiles

\* a second completion, after a restart from the menu, has rewritten the row
\* the first completion inserted
C10_Witness ==
    /\ BioCompleted
    /\ pre.fsm[ev.from].data.entry = {"menu"}
    /\ \E p \in ProfilesOf(pre.profiles, Caller) : \E q \in ProfilesOf(profiles, Caller) :
         p.id = q.id /\ p.bio # q.bio /\ p.boosted_until = q.boosted_until /\ p.name = "ann"

\* The dialogue storage of the sender of the last event, before and after it.
Was == pre.fsm[ev.from]
Is == fsm[ev.from]
TextOf == CHOOSE text \in ev.message : TRUE
RegSteps == {"reg_name", "reg_gender", "reg_age", "reg_city", "reg_photo",
             "reg_photo_invalid", "reg_bio"}
\* the inputs the claim calls valid for the step that received them
GenderWords == {"muzhskoy", "Muzhskoy", "male", "Male", "zhenskiy", "Zhenskiy", "female",
                "Female", "drugoe", "Drugoe", "other", "Other"}
ValidInput ==
    \/ ev.op \in {"reg_name", "reg_city", "reg_bio"} /\ TextOf \notin {"", BACK_BTN}
    \/ ev.op = "reg_gender" /\ TextOf \in GenderWords
    \/ ev.op = "reg_age" /\ \E n \in 18..100 : ParseInt(TextOf) = {n}
    \/ ev.op = "reg_photo"
BackInput == ev.op \in RegSteps \ {"reg_photo"} /\ TextOf = BACK_BTN
NextStep(state) ==
    CASE state = "Registration:name" -> "Registration:gender"
      [] state = "Registration:gender" -> "Registration:age"
      [] state = "Registration:age" -> "Registration:city"
      [] state = "Registration:city" -> "Registration:photo"
      [] state = "Registration:photo" -> "Registration:bio"
      [] state = "Registration:bio" -> "none"
PrevStep(state) ==
    CASE state = "Registration:gender" -> "Registration:name"
      [] state = "Registration:age" -> "Registration:gender"
      [] state = "Registration:city" -> "Registration:age"
      [] state = "Registration:photo" -> "Registration:city"
      [] state = "Registration:bio" -> "Registration:photo"
\* the field a step stages is set by a valid input of that step
StagedByStep ==
    CASE ev.op = "reg_name" -> Is.data.name = {TextOf}
      [] ev.op = "reg_gender" -> Is.data.gender \in {{"male"}, {"female"}, {"other"}}
      [] ev.op = "reg_age" -> Is.data.age = ParseInt(TextOf)
      [] ev.op = "reg_city" -> Is.data.city = {TextOf}
      [] ev.op = "reg_photo" -> Is.data.photos # {}
      [] ev.op = "reg_bio" -> \E p \in profiles : p.user_id = Caller /\ p.bio = TextOf

OnlyOwnDialogueChanged ==
    /\ users = pre.users /\ profiles = pre.profiles /\ viewed = pre.viewed
    /\ likes = pre.likes /\ matches = pre.matches /\ chats = pre.chats
    /\ complaints = pre.complaints
    /\ \A t \in Senders \ {ev.from} : fsm[t] = pre.fsm[t]

\* C12: the back signal in a step other than Name changes the active step and
\* nothing else, every staged field (name, gender, age, city, photos, entry)
\* staying as it was; a valid input of a staging step changes, of the staged
\* fields, only the field of that step.
C12_BackKeepsStagedData ==
    /\ BackInput /\ Was.state # "Registration:name" =>
         Is.data = Was.data /\ OnlyOwnDialogueChanged
    /\ ValidInput =>
         CASE ev.op = "reg_name" -> Is.data = [Was.data EXCEPT !.name = Is.data.name]
           [] ev.op = "reg_gender" -> Is.data = [Was.data EXCEPT !.gender = Is.data.gender]
           [] ev.op = "reg_age" -> Is.data = [Was.data EXCEPT !.age = Is.data.age]
           [] ev.op = "reg_city" -> Is.data = [Was.data EXCEPT !.city = Is.data.city]
           [] ev.op = "reg_photo" -> Is.data = [Was.data EXCEPT !.photos = Is.data.photos]
           [] OTHER -> TRUE

\* after stepping back to Name with gender, age and city staged, another name
\* has replaced the staged one and the other fields are as before
C12_Witness ==
    /\ ev.op = "reg_name" /\ ValidInput
    /\ Was.data.name # {} /\ Was.data.name # Is.data.name
    /\ Is.data.gender # {} /\ Is.data.age # {} /\ Is.data.city # {} /\ Is.data.entry # {}

\* a profile of the Telegram user is stored
HasProfile(tg_id) == \E u \in users : u.tg_id = tg_id /\ ProfilesOf(profiles, u.id) # {}

\* the staged entry point records how the flow was last entered: choice 2 of
\* the profile menu stages "menu", the create-profile button stages "start",
\* and every other event keeps it or clears the staged data
EntryIsLastEntrance ==
    /\ ev.op = "myprofile_choice" /\ is_choice(TextOf, "2") => Is.data.entry = {"menu"}
    /\ ev.op = "create_profile_button" => Is.data.entry = {"start"}
    /\ ev.op \in RegSteps \cup {"start_handler", "back_button", "change_photo_receive",
                                "change_photo_invalid", "change_bio_receive"} =>
         Is.data.entry = Was.data.entry \/ Is.data = NoData

\* C13: the back signal in the Name step leaves the flow and clears the staged
\* data; the user is returned to the profile menu when the flow was entered
\* from the menu and a profile of the user is stored, and otherwise ends idle
\* with the create-profile prompt; so too when Name was reached by stepping back.
C13_BackInNameLeavesFlow ==
    /\ EntryIsLastEntrance
    /\ ev.op = "reg_name" /\ TextOf = BACK_BTN =>
         /\ Is.data = NoData
         /\ IF Was.data.entry = {"menu"} /\ HasProfile(ev.from)
            THEN Is.state = "MyProfileMenu:waiting_choice" /\ sent = <<Msg(ev.from, "profile_menu")>>
            ELSE Is = Idle /\ sent = <<Msg(ev.from, "press_create")>>

\* Name was reached again from a later step of a flow entered from the menu,
\* and the back signal returned the user to the profile menu with nothing staged
C13_Witness ==
    /\ ev.op = "reg_name" /\ TextOf = BACK_BTN
    /\ Was.data.entry = {"menu"} /\ Was.data.name # {} /\ Was.data.gender # {}
    /\ Is = [state |-> "MyProfileMenu:waiting_choice", data |-> NoData]

\* C14: EndChat by a user without an active Chat answers the user that there is
\* no active chat, sends nothing to anyone else, and leaves every Chat, Match
\* and User row as it was.
C14_EndChatWithoutActiveChat ==
    ev.op = "end_chat" /\ Caller # 0 /\ ActiveChatsOf(pre.chats, pre.matches, Caller) = {} =>
        /\ sent = <<Msg(ev.from, "no_active_chat")>>
        /\ chats = pre.chats /\ matches = pre.matches /\ users = pre.users

\* EndChat by a user whose only chat had been ended before
C14_Witness ==
    /\ ev.op = "end_chat" /\ Caller # 0
    /\ ActiveChatsOf(pre.chats, pre.matches, Caller) = {}
    /\ \E c \in pre.chats : c.match_id \in {m.id : m \in MatchesOf(pre.matches, Caller)}
    /\ sent = <<Msg(ev.from, "no_active_chat")>>

\* ------------------------------------------------- relay and handshake claims
\* the reason of a report: the text after the command word has a piece that is
\* not a space
HasReason(text) == \E i \in 2..Len(text) : text[i] # " "
\* the counterparts of the user's active chats
CounterpartsOf(C, M, user_id) ==
    {IF m.user1_id = user_id THEN m.user2_id ELSE m.user1_id :
        m \in {x \in MatchesOf(M, user_id) : \E c \in ActiveChatsOf(C, M, user_id) : c.match_id = x.id}}

\* C15: a report whose reason is empty after trimming inserts no Complaint; a
\* report with a reason inserts exactly one Complaint, from the reporter and
\* against the counterpart of the reporter's active chat if there is one, and
\* against nobody otherwise; a report never changes a Chat, Match or User row.
C15_ReportFilesOneComplaint ==
    ev.op = "report" =>
        /\ chats = pre.chats /\ matches = pre.matches /\ users = pre.users
        /\ Caller # 0 /\ ~HasReason(TextOf) => complaints = pre.complaints
        /\ Caller # 0 /\ HasReason(TextOf) =>
             \E c \in complaints \ pre.complaints :
                /\ complaints = pre.complaints \cup {c}
                /\ c.from_user_id = Caller
                /\ LET others == CounterpartsOf(pre.chats, pre.matches, Caller)
                   IN  IF others = {} THEN c.against_user_id = {}
                       ELSE \E o \in others : c.against_user_id = {o}

\* a report with a padded reason by a user in an active chat was filed against
\* the counterpart
C15_Witness ==
    /\ ev.op = "report" /\ Caller # 0 /\ Len(TextOf) = 5
    /\ CounterpartsOf(pre.chats, pre.matches, Caller) # {}
    /\ \E c \in complaints \ pre.complaints :
          c.from_user_id = Caller /\ c.against_user_id # {} /\ c.reason = <<"spam">>

\* the Telegram identities of the counterparts of the user's active chats
CounterpartTgs(user_id) ==
    {u.tg_id : u \in {x \in pre.users : x.id \in CounterpartsOf(pre.chats, pre.matches, user_id)}}

\* C16: a message is relayed only when its sender is in no dialogue state and
\* has an active Chat, and then one copy is sent, to the other member of the
\* Match of that chat; no other event relays anything.
C16_RelayOnlyInActiveChat ==
    /\ ev.op # "proxy_messages" => \A i \in DOMAIN sent : sent[i].text # "copy_of_message"
    /\ ev.op = "proxy_messages" /\ sent # <<>> =>
         /\ pre.fsm[ev.from].state = "none"
         /\ Caller # 0 /\ ActiveChatsOf(pre.chats, pre.matches, Caller) # {}
         /\ Len(sent) = 1 /\ sent[1].text = "copy_of_message"
         /\ sent[1].to \in CounterpartTgs(Caller) /\ sent[1].to # ev.from

\* user 2, matched with users 1 and 3, relayed a message to the one in the chat
C16_Witness ==
    /\ ev.op = "proxy_messages" /\ ev.from = Tg(2)
    /\ \A m \in pre.matches : m.is_active
    /\ sent = <<Msg(Tg(1), "copy_of_message")>>

\* the approve/reject prompts among the messages of the last event
PromptsSent == {i \in DOMAIN sent : sent[i].text = "contact_prompt"}
StoredRecordsUnchanged ==
    /\ users = pre.users /\ profiles = pre.profiles /\ viewed = pre.viewed
    /\ likes = pre.likes /\ matches = pre.matches /\ chats = pre.chats
    /\ complaints = pre.complaints

\* C17: an approve/reject prompt is sent only on a contact-exchange request of a
\* user with an active Chat, to the counterpart of that chat and to nobody
\* else; the request changes no stored record.
C17_ContactRequestPromptsCounterpart ==
    /\ ev.op # "share_contact" => PromptsSent = {}
    /\ ev.op = "share_contact" =>
         /\ StoredRecordsUnchanged
         /\ Cardinality(PromptsSent) <= 1
         /\ \A i \in PromptsSent :
              /\ Caller # 0 /\ ActiveChatsOf(pre.chats, pre.matches, Caller) # {}
              /\ sent[i].to \in CounterpartTgs(Caller) /\ sent[i].to # ev.from

\* user 2, matched with users 1 and 3 and in a chat with user 3, asked for the
\* contacts: the requester got the acknowledgement, user 3 the prompt
C17_Witness ==
    /\ ev.op = "share_contact" /\ ev.from = Tg(2)
    /\ \A m \in pre.matches : m.is_active
    /\ Len(sent) = 2 /\ sent[1] = Msg(Tg(2), "contact_request_sent")
    /\ sent[2].to = Tg(3) /\ sent[2].text = "contact_prompt"

\* the last event was a press of the given button of a prompt the presser holds
Pressed(action) ==
    /\ ev.op = "cb_share_contact"
    /\ TextOf[2] = action
    /\ \E pr \in prompts : pr.to = ev.from /\ pr.match_id = TextOf[3]
\* who asked for the exchange the presser answered
Requester == (CHOOSE pr \in prompts : pr.to = ev.from /\ pr.match_id = TextOf[3]).by
Received(tg, text) == \E i \in DOMAIN sent : sent[i].to = tg /\ sent[i].text = text

\* C18: when the reject button is pressed, the presser is sent the "you
\* declined" text and the requester the "counterpart declined" text, and not
\* the other way round, whichever of the two is user1_id or user2_id of the Match.
C18_RejectWordingFollowsRoles ==
    Pressed("reject") =>
        /\ Received(ev.from, "you_declined_contacts")
        /\ Received(Requester, "counterpart_declined_contacts")
        /\ ~Received(ev.from, "counterpart_declined_contacts")
        /\ ~Received(Requester, "you_declined_contacts")

\* the messages of the last event that carry a contact
ContactsSent == {i \in DOMAIN sent : sent[i].text = "contacts_allowed"}
PressedMatch == CHOOSE m \in pre.matches : m.id = TextOf[3]
MemberTgs == {u.tg_id : u \in {x \in pre.users : x.id \in {PressedMatch.user1_id, PressedMatch.user2_id}}}

\* C19: when the approve button is pressed, each member of the Match is sent
\* the reference to the other member's Telegram identity and not to its own,
\* and nobody outside the Match is sent either reference; no other event sends
\* a contact.
C19_ApproveExchangesContacts ==
    /\ ~Pressed("approve") => ContactsSent = {}
    /\ Pressed("approve") =>
         /\ \A t \in MemberTgs : \E i \in ContactsSent :
               sent[i].to = t /\ sent[i].contact.id \in MemberTgs \ {t}
         /\ \A i \in ContactsSent :
               sent[i].to \in MemberTgs /\ sent[i].contact.id \in MemberTgs \ {sent[i].to}

\* user 3, asked by user 2 (who is also matched with user 1), approved: user 2
\* and user 3 were sent each other's reference
C19_Witness ==
    /\ Pressed("approve") /\ ev.from = Tg(3) /\ Requester = Tg(2)
    /\ \E m \in pre.matches : m.user1_id = 1 /\ m.is_active
    /\ \E i \in ContactsSent : sent[i].to = Tg(2) /\ sent[i].contact.id = Tg(3)
    /\ \E i \in ContactsSent : sent[i].to = Tg(3) /\ sent[i].contact.id = Tg(2)

\* ------------------------------------------------ like notification claims
LikeOps == {"like", "like_with_message", "like_with_video"}
\* the Users id of the target's Telegram identity
TargetTg == CHOOSE t \in Senders : \E u \in pre.users : u.id = ev.target /\ u.tg_id = t
\* the last event recorded a Like from its sender to the target: the upsert of
\* the sender's row ran (the plain-like button records under the bot's row)
LikeRecorded ==
    /\ ev.op \in LikeOps /\ ev.target # 0 /\ Caller # 0
    /\ \E l \in likes : l.from_user_id = Caller /\ l.to_user_id = ev.target
    /\ ev.op = "like" => \E l \in likes \ pre.likes : l.from_user_id = Caller
\* the last event created the Match of the two
MatchesIn(M, a, b) == {m \in M : {m.user1_id, m.user2_id} = {a, b}}
MatchResulted ==
    /\ MatchesIn(pre.matches, Caller, ev.target) = {}
    /\ MatchesIn(matches, Caller, ev.target) # {}

ChatOps == {"start_chat", "end_chat", "block_user"}

\* C21: the like handlers (plain, with a message, with a video), the creation
\* of a Match included, never insert or change a Chat row: the Chats table
\* changes only in StartChat, EndChat and BlockUser.
C21_LikesLeaveChatsAlone ==
    /\ ev.op \in LikeOps \cup {"skip", "like_msg", "like_vid"} => chats = pre.chats
    /\ chats # pre.chats => ev.op \in ChatOps

\* a like with a message made the Match of the two users, and no Chat row
\* appeared
C21_Witness ==
    /\ LikeRecorded /\ ev.op = "like_with_message" /\ MatchResulted
    /\ chats = pre.chats /\ chats = {}

\* ------------------------------------------------- stored profile claims
ValidProfile(p) ==
    /\ p.gender \in {"male", "female", "other"}
    /\ p.age \in 18..100
    /\ p.name # "" /\ p.city # "" /\ p.bio # ""
    /\ Len(p.photos) >= 1
AllStaged(data) ==
    data.name # {} /\ data.gender # {} /\ data.age # {} /\ data.city # {} /\ data.photos # {}

\* C22: every Profile row the Bio step writes has a gender among male, female
\* and other, an age from 18 to 100, a non-empty name, city and bio and at
\* least one media entry; and whenever a user is in the Bio step, name, gender,
\* age, city and media are all staged.
C22_WrittenProfilesAreValid ==
    /\ ev.op = "reg_bio" => \A p \in profiles \ pre.profiles : ValidProfile(p)
    /\ \A t \in Senders : fsm[t].state = "Registration:bio" => AllStaged(fsm[t].data)

\* the Bio step replaced the stored profile of a user by one under another name
C22_Witness ==
    /\ BioCompleted
    /\ \E p \in profiles \ pre.profiles : p.name = "bob" /\ p.bio = "b2"
    /\ \E p \in pre.profiles \ profiles : p.name # "bob"

\* ------------------------------------------------------ concurrency claims
\* C23: while the like handlers of two users who like each other interleave at
\* their suspension points, there is at most one Match row for the pair in
\* every reachable state.
C23_OneMatchUnderRace ==
    \A a \in Likers : \A b \in Likers : Cardinality(MatchesIn(matches, a, b)) <= 1

\* both handlers stored their like before either looked for the reciprocal
\* like; both then found it, and the pair has its Match
C23_Witness ==
    /\ \E k \in tasks : k.op = "like_with_message" /\ k.me = 1 /\ k.pc # "notify_like"
    /\ \E k \in tasks : k.op = "like_with_message" /\ k.me = 2 /\ k.pc = "notify_match"
    /\ Cardinality(MatchesIn(matches, 1, 2)) = 1

\* C24: while StartChat handlers of the two members of a Match (or two of one
\* member) interleave at their suspension points, every user has at most one
\* active Chat and every Match has at most one active Chat, in every reachable
\* state.
C24_OneActiveChatUnderRace ==
    /\ \A u \in UserIds : Cardinality(ActiveChatsOf(chats, matches, u)) <= 1
    /\ \A m \in matches : Cardinality({c \in chats : c.is_active /\ c.match_id = m.id}) <= 1

\* ------------------------------------------------------ failed-write claims
BioCompletion ==
    ev.op = "reg_bio" /\ Was.state = "Registration:bio" /\ TextOf # BACK_BTN /\ TextOf # ""
WriteFailed == BioCompletion /\ "profile_write" \in ev.steps

\* C25: when the Profiles write fails at the completion of the Bio step, the
\* user is sent the persistence-error text and no "profile saved" text, and the
\* dialogue is still in the Bio step with the staged data as it was.
C25_FailedWriteKeepsBioStep ==
    WriteFailed =>
        /\ Received(ev.from, "profile_save_error")
        /\ ~Received(ev.from, "profile_saved")
        /\ Is = Was

\* ------------------------------------------------------- unavailable claims
ActiveMatchesBefore(user_id) == {m \in MatchesOf(pre.matches, user_id) : m.is_active}
HadChat(m) == \E c \in pre.chats : c.is_active /\ c.match_id = m.id
ChatUnavailable ==
    /\ ev.op = "start_chat" /\ Caller # 0
    /\ \A m \in ActiveMatchesBefore(Caller) : HadChat(m)
NothingToBlock ==
    /\ ev.op = "block_user" /\ Caller # 0
    /\ ActiveChatsOf(pre.chats, pre.matches, Caller) = {}

\* C26: a StartChat by a user who has no active Match, or whose active Matches
\* all have an active Chat, sends that user a "not available" text and leaves
\* every Chat row as it was (the user's active chats stay active); a BlockUser
\* by a user without an active Chat leaves every Users and Chat row as it was.
C26_UnavailableChangesNothing ==
    /\ ChatUnavailable =>
          /\ chats = pre.chats
          /\ \/ Received(ev.from, "no_active_matches")
             \/ Received(ev.from, "all_matches_have_chats")
    /\ NothingToBlock => users = pre.users /\ chats = pre.chats
C26_Witness ==
    /\ ChatUnavailable
    /\ ActiveChatsOf(pre.chats, pre.matches, Caller) # {}
    /\ ActiveChatsOf(chats, matches, Caller) = ActiveChatsOf(pre.chats, pre.matches, Caller)
    /\ Received(ev.from, "all_matches_have_chats")
C26_WitnessBlock == NothingToBlock /\ Received(ev.from, "no_active_chat_to_block")

\* ---------------------------------------------------- unreliable chat claims
NewChats == {c \in chats : \A d \in pre.chats : d.id # c.id}
OpenedChat == ev.op = "start_chat" /\ NewChats # {}
OpenedWith ==
    {u.tg_id : u \in {x \in users : \E c \in NewChats : \E m \in matches :
                        /\ m.id = c.match_id
                        /\ x.id \in {m.user1_id, m.user2_id} \ {Caller}}}
EndedChat ==
    ev.op = "end_chat" /\ Caller # 0 /\ ActiveChatsOf(pre.chats, pre.matches, Caller) # {}
EndNoticeSent == \E i \in DOMAIN sent : sent[i].text \in {"chat_ended", "other_ended_chat"}

\* C27: when StartChat has opened a chat or EndChat has found a chat to end, a
\* failed delivery to one party does not stop the handler: every party whose
\* delivery does not fail is still sent its notification, and the Chat row
\* stays activated (StartChat) or deactivated (EndChat).
C27_DeliveryFailureIsCaught ==
    /\ OpenedChat =>
          /\ ev.from \notin ev.down => Received(ev.from, "chat_started")
          /\ \A tg \in OpenedWith \ ev.down : Received(tg, "chat_started_by_other")
          /\ \A c \in NewChats : c.is_active
    /\ EndedChat =>
          /\ ev.from \notin ev.down => Received(ev.from, "chat_ended")
          /\ CounterpartTgs(Caller) \cap ev.down = {} =>
                \E tg \in CounterpartTgs(Caller) : Received(tg, "other_ended_chat")
          /\ "end_chat" \notin ev.steps =>
                \E c \in ActiveChatsOf(pre.chats, pre.matches, Caller) :
                    [c EXCEPT !.is_active = FALSE] \in chats

\* C28: when the deactivating write of EndChat fails, neither party is sent a
\* "chat ended" text; such a text is sent only by an EndChat after which a chat
\* of the caller that was active is inactive.
C28_FailedEndTellsNobody ==
    /\ EndedChat /\ "end_chat" \in ev.steps => ~EndNoticeSent
    /\ ev.op = "end_chat" /\ EndNoticeSent =>
          \E c \in ActiveChatsOf(pre.chats, pre.matches, Caller) :
              [c EXCEPT !.is_active = FALSE] \in chats

\* C29: when the insert of the new Chat fails during StartChat, every chat of
\* the caller that was active before is still active, and no Chat row has
\* changed.
C29_FailedCreateKeepsChats ==
    ev.op = "start_chat" /\ "create_chat" \in ev.steps =>
        /\ ActiveChatsOf(pre.chats, pre.matches, Caller) \subseteq ActiveChatsOf(chats, matches, Caller)
        /\ chats = pre.chats

\* ------------------------------------------------------------- boost claims
ProfilesBefore == {p \in pre.profiles : \E u \in pre.users : u.tg_id = ev.from /\ u.id = p.user_id}
ProfilesAfter == {p \in profiles : p.user_id = Caller}

\* C30: a completion of the Bio step by a user without a Profile inserts one
\* profile whose boosted_until is 24 hours after the time of the completion; a
\* completion by a user who has a Profile leaves that profile's id,
\* boosted_until and created_at as they were and inserts nothing.
C30_BoostOnlyOnInsert ==
    BioCompletion =>
        IF ProfilesBefore = {}
        THEN /\ Cardinality(profiles \ pre.profiles) = 1
             /\ \A p \in profiles \ pre.profiles :
                    p.user_id = Caller /\ p.boosted_until = {now + 1}
             /\ pre.profiles \subseteq profiles
        ELSE /\ Cardinality(profiles) = Cardinality(pre.profiles)
             /\ \A p \in ProfilesBefore : \E q \in ProfilesAfter :
                    /\ q.id = p.id
                    /\ q.boosted_until = p.boosted_until
                    /\ q.created_at = p.created_at
C30_Witness ==
    /\ BioCompletion
    /\ \E p \in ProfilesBefore : \E q \in ProfilesAfter :
          q.id = p.id /\ q.bio # p.bio /\ q.boosted_until = p.boosted_until /\ p.boosted_until # {now + 1}
C30_WitnessInsert ==
    BioCompletion /\ ProfilesBefore = {} /\ \E p \in ProfilesAfter : p.boosted_until = {now + 1}

\* ------------------------------------------------------- match-basis claims
\* C31: in every reachable state, also after a Likes upsert has failed, every
\* Match row joins two different users who have each a stored Like for the
\* other.
C31_MatchesRestOnBothLikes ==
    \A m \in matches :
        /\ m.user1_id # m.user2_id
        /\ Liked(likes, m.user1_id, m.user2_id)
        /\ Liked(likes, m.user2_id, m.user1_id)

\* ------------------------------------------------------------ showing claims
CardTexts == {"profile_photo_card", "profile_text_card"}
CardSent == \E i \in DOMAIN sent : sent[i].to = ev.from /\ sent[i].text \in CardTexts
ShowOps == {"feed", "skip"}
ViewRecorded(pid) ==
    \E r \in viewed \ pre.viewed : r.user_id = Caller /\ r.profile_id = pid /\ r.viewed_at = now

\* C32: when a feed request or a skip has sent a viewer the card of a
\* profile, as a photo or (the photo failing) as text, a ViewedProfiles row of
\* that viewer and profile has been written by the same operation, unless the
\* write itself failed; a failed write leaves the card sent.
C32_ShownIsRecorded ==
    ev.op \in ShowOps /\ ev.shown # {} =>
        /\ CardSent /\ "mark_viewed" \notin ev.steps => \A pid \in ev.shown : ViewRecorded(pid)
        /\ ev.from \notin ev.down => CardSent
\* the same for feed requests alone
FeedShownIsRecorded == ev.op = "feed" => C32_ShownIsRecorded

\* ------------------------------------------------------------- block claims
BlockCase ==
    ev.op = "block_user" /\ Caller # 0 /\ ActiveChatsOf(pre.chats, pre.matches, Caller) # {}
CounterpartIn(c) ==
    _other_user_id(CHOOSE m \in pre.matches : m.id = c.match_id, Caller)
BlockedBy(c) ==
    {IF u.id = CounterpartIn(c) THEN [u EXCEPT !.is_blocked = TRUE] ELSE u : u \in pre.users}
EndedBy(c) == {IF d.id = c.id THEN [d EXCEPT !.is_active = FALSE] ELSE d : d \in pre.chats}

\* C33: a BlockUser by a user with an active Chat blocks the counterpart of
\* one such chat and deactivates that chat, and changes no other Users or Chat
\* row, when the store answers; and whatever the store does, the counterpart
\* is not left blocked by it while that chat is still active.
C33_BlockIsAllOrNothing ==
    BlockCase =>
        \E c \in ActiveChatsOf(pre.chats, pre.matches, Caller) :
            /\ ev.steps = {} => users = BlockedBy(c) /\ chats = EndedBy(c)
            /\ users \in {pre.users, BlockedBy(c)}
            /\ chats \in {pre.chats, EndedBy(c)}
            /\ ~(users # pre.users /\ c \in chats)
\* the same when both updates succeed
BlockSucceeds == ev.steps = {} => C33_BlockIsAllOrNothing

\* -------------------------------------------------------- blocked-flag claims
\* C34: whatever event the first run has handled, the second run, which
\* differs only in the blocked flags of the Users rows, can handle the same
\* event with the same messages sent (feed cards and relayed messages
\* included), the same card shown and the same Likes, Matches, Chats and
\* ViewedProfiles rows.
C34_BlockedFlagIsIgnored == \A r \in twin : ENABLED Repeat(r)
C34_Witness ==
    /\ \E r \in twin : r.ev.op = "proxy_messages" /\ r.sent # <<>>
                        /\ \E u \in users : u.is_blocked /\ u.tg_id = r.sent[1].to

\* ------------------------------------------------- dialogue-persistence claims
RegistrationStates ==
    {"Registration:name", "Registration:gender", "Registration:age", "Registration:city",
     "Registration:photo", "Registration:bio"}

\* C35: a press of a button under a card by a user who is in a registration
\* step leaves that user's registration step and staged fields as they were.
C35_ButtonsLeaveRegistrationAlone ==
    ev.op \in Actions /\ Was.state \in RegistrationStates => Is = Was

\* -------------------------------------------------------- like-race claims
LikeInFlight(a) == \E k \in tasks : k.me = a /\ k.op \in {"like", "like_with_message"}

\* C36: once the likes of users 1 and 2 for each other are both stored and
\* neither user's like handler is still in flight, however the two handlers
\* were interleaved at their suspension points, the Match of the pair exists.
C36_BothLikesGiveMatch ==
    /\ Liked(likes, 1, 2) /\ Liked(likes, 2, 1)
    /\ ~LikeInFlight(1) /\ ~LikeInFlight(2)
    => MatchesIn(matches, 1, 2) # {}
\* both handlers have run to their end, the second of them just now
C36_Witness ==
    /\ Liked(likes, 1, 2) /\ Liked(likes, 2, 1) /\ tasks = {}
    /\ MatchesIn(matches, 1, 2) # {}
    /\ ev.op = "like_with_message" /\ sent = <<>>

\* C37: an event sends the match notification only if it has inserted a Match
\* row: a like between two users who are matched already sends none.
C37_MatchNoticeOnlyOnInsert ==
    (\E i \in DOMAIN sent : sent[i].text = "match") => matches # pre.matches
\* in the race of two reciprocal likes, both handlers are about to send the
\* match notification to both users
BothHandlersNotify ==
    \A a \in Likers : \E k \in tasks : k.me = a /\ k.pc = "notify_match"

\* ---------------------------------------------------- late-approval claims
\* C38: an approve press sends the Telegram identities only if the Match named
\* by the pressed button has an active Chat at that moment.
C38_ApproveNeedsActiveChat ==
    Pressed("approve") /\ ContactsSent # {} =>
        \E c \in pre.chats : c.is_active /\ c.match_id = PressedMatch.id

\* ------------------------------------------------------- feed-cycle claims
\* two successive requests (ops1 first, ops2 next) of one viewer, both handled
\* without a failure, the second while the first showing is inside the window
Successive(ops1, ops2) ==
    /\ ev.op \in ops1 /\ ev'.op \in ops2 /\ ev'.from = ev.from
    /\ ev.steps = {} /\ ev.down = {} /\ ev'.steps = {} /\ ev'.down = {}
    /\ now' - now <= ViewWindowDays

\* C39: the profile a feed request or a skip has shown to a viewer is not the
\* one the viewer's next request or skip shows, as long as the first showing
\* is not older than 2 days: the feed does not go back to a profile it has shown.
C39_NextRequestShowsAnother ==
    [][Successive(ShowOps, ShowOps) => ev'.shown \cap ev.shown = {}]_vars
\* the same for feed requests alone
FeedShowsAnother ==
    [][Successive({"feed"}, {"feed"}) => ev'.shown \cap ev.shown = {}]_vars

\* ------------------------------------------------------ chat-shape claims
ActiveChatsOn(m) == {c \in chats : c.is_active /\ c.match_id = m.id}

\* C40: after any sequence of StartChat, EndChat and BlockUser operations run
\* one after the other, every Match has at most one active Chat, every active
\* Chat is on an active Match, and the Chat a StartChat has just opened is on
\* an active Match of which the caller is a member.
C40_ChatsSitOnActiveMatches ==
    /\ \A m \in matches : Cardinality(ActiveChatsOn(m)) <= 1
    /\ \A c \in chats : c.is_active => \E m \in matches : m.id = c.match_id /\ m.is_active
    /\ OpenedChat => \A c \in NewChats :
          \E m \in MatchesOf(matches, Caller) : m.id = c.match_id /\ m.is_active
\* a chat was opened, ended, and the caller has opened the next one while the
\* store also holds an inactive Match
C40_Witness ==
    /\ OpenedChat
    /\ \E c \in pre.chats : ~c.is_active
    /\ \E m \in matches : ~m.is_active

====
